---- MODULE Spec2Model ----
(***************************************************************************)
(* Model of the retry wrapper fetchWithRetry and of the playlist page walk *)
(* getRecentVideos of the YouTube playlist summarizer functions.           *)
(*                                                                         *)
(* Numbers that JavaScript may turn into NaN are records [nan, v]; v is in *)
(* thousandths (milliseconds when the number is a count of seconds), so    *)
(* that Math.min(5, delaySec) * 1000 stays an integer.                     *)
(***************************************************************************)
EXTENDS Integers, Sequences, FiniteSets, TLC

\* ------------------------------------------------------------------ bounds
\* largest maxRetries argument tried in a direct call of fetchWithRetry
MaxRetriesArg == 5

\* largest number of page requests followed in one run (a feed whose cursors
\* form a cycle never ends the walk)
MaxPages == 4

\* videos in a list response
MaxVideos == 2

\* delete click handlers that wait for a response or a timer at one time
MaxDeletes == 2

\* ------------------------------------------------------- program constants
DefaultMaxRetries == 3
DelayCapSec == 5
ItemCap == 50

\* fetchTranscript (Netlify): polls of a job, and the wait before each
MaxPolls == 20
PollDelayMs == 5000

\* ------------------------------------------------------ JavaScript numbers
Num(v) == [nan |-> FALSE, v |-> v]
NaN == [nan |-> TRUE, v |-> 0]

Digits == <<"0", "1", "2", "3", "4", "5", "6", "7", "8", "9">>

IsDigit(c) == \E d \in 1..10 : Digits[d] = c

DigitVal(c) == (CHOOSE d \in 1..10 : Digits[d] = c) - 1

IsSpace(c) == c \in {" ", "\t"}

RECURSIVE TrimLeft(_)
TrimLeft(s) == IF s # <<>> /\ IsSpace(Head(s)) THEN TrimLeft(Tail(s)) ELSE s

RECURSIVE TrimRight(_)
TrimRight(s) ==
  IF s # <<>> /\ IsSpace(s[Len(s)]) THEN TrimRight(SubSeq(s, 1, Len(s) - 1)) ELSE s

\* value of a string of digits
RECURSIVE DigitsVal(_)
DigitsVal(s) ==
  IF s = <<>> THEN 0 ELSE 10 * DigitsVal(SubSeq(s, 1, Len(s) - 1)) + DigitVal(s[Len(s)])

AllDigits(s) == \A k \in 1..Len(s) : IsDigit(s[k])

\* thousandths denoted by the fraction digits f (digits after the third are dropped)
FracMilli(f) ==
  LET d(k) == IF k <= Len(f) THEN DigitVal(f[k]) ELSE 0
  IN 100 * d(1) + 10 * d(2) + d(3)

\* unsigned decimal literal: digits, digits.digits, digits. or .digits
UnsignedMilli(s) ==
  IF \E k \in 1..Len(s) : s[k] = "."
  THEN LET p == CHOOSE k \in 1..Len(s) : s[k] = "."
           ip == SubSeq(s, 1, p - 1)
           fp == SubSeq(s, p + 1, Len(s))
       IN IF AllDigits(ip) /\ AllDigits(fp) /\ (ip # <<>> \/ fp # <<>>)
          THEN Num(1000 * DigitsVal(ip) + FracMilli(fp))
          ELSE NaN
  ELSE IF s # <<>> /\ AllDigits(s) THEN Num(1000 * DigitsVal(s)) ELSE NaN

\* Number(ra) of a header string, in thousandths: surrounding white space is
\* ignored, the empty string is 0, a signed decimal literal is its value and
\* any other text is NaN.
NumberOf(str) ==
  LET t == TrimRight(TrimLeft(str))
  IN IF t = <<>> THEN Num(0)
     ELSE IF Head(t) = "-"
          THEN LET u == UnsignedMilli(Tail(t)) IN IF u.nan THEN NaN ELSE Num(0 - u.v)
          ELSE IF Head(t) = "+" THEN UnsignedMilli(Tail(t))
          ELSE UnsignedMilli(t)

\* Math.pow with its arguments swapped
Pow2Swapped(n) == n * n

RECURSIVE Pow2(_)
Pow2(n) == IF n = 0 THEN 1 ELSE 2 * Pow2(n - 1)

\* Math.min(a, b): NaN as soon as one argument is NaN
MathMin(a, b) ==
  IF a.nan \/ b.nan THEN NaN ELSE IF a.v <= b.v THEN a ELSE b

\* a >= b and a < b of two JavaScript numbers or dates: false when one is NaN
JsGE(a, b) == ~a.nan /\ ~b.nan /\ a.v >= b.v

JsLT(a, b) == ~a.nan /\ ~b.nan /\ a.v < b.v

\* -------------------------------------------------------------- responses
retryable == {408, 429, 503}

Statuses == {200, 404, 500, 408, 429, 503}

NoHeader == [present |-> FALSE, text |-> <<>>]

Hdr(s) == [present |-> TRUE, text |-> s]

\* decimal text of a natural number, as a server writes delay-seconds
RECURSIVE Decimal(_)
Decimal(n) ==
  IF n < 10 THEN <<Digits[n + 1]>> ELSE Append(Decimal(n \div 10), Digits[(n % 10) + 1])

\* delay-seconds values a server sends in Retry-After
RetryAfterSecs == {0, 3, 10}

\* Retry-After values a server may send (absent, empty, delay-seconds, other)
RetryAfterValues ==
  { NoHeader, Hdr(<<>>) } \cup { Hdr(Decimal(n)) : n \in RetryAfterSecs } \cup
  {
    Hdr(<<"0", ".", "5">>),
    Hdr(<<"-", "1">>),
    Hdr(<<"W", "e", "d", ",", " ", "2", "1">>) }

\* truthiness of res.headers.get('Retry-After'): null and "" are falsy
Truthy(h) == h.present /\ h.text # <<>>

BodyKinds == {"json", "empty", "invalid"}

IsOk(status) == status >= 200 /\ status <= 299

\* the Retry-After header is ignored
DelaySecNoHeader(ra, idx) == Num(1000 * Pow2(idx))

\* delaySec of the code, in thousandths of a second
DelaySec(ra, idx) == IF Truthy(ra) THEN NumberOf(ra.text) ELSE Num(1000 * Pow2(idx))

\* the cap of 5 seconds is left out
DelayMsNoCap(ra, idx) == DelaySec(ra, idx)

\* delayMs of the code: Math.min(5, delaySec) * 1000
DelayMs(ra, idx) == MathMin(Num(1000 * DelayCapSec), DelaySec(ra, idx))

\* time a timer set with setTimeout(r, ms) runs: the runtime replaces NaN and
\* values below 1 by 1 millisecond
TimerMs(ms) == IF ms.nan \/ ms.v < 1 THEN 1 ELSE ms.v

\* ------------------------------------------------------------------ feeds
NoToken == ""

\* new Date(item.snippet.publishedAt): time in hours, NaN for an unparsable text
DateOf(p) == IF p.valid THEN Num(p.t) ELSE NaN

Item(id, t) == [videoId |-> id, publishedAt |-> [valid |-> TRUE, t |-> t]]

BadItem(id) == [videoId |-> id, publishedAt |-> [valid |-> FALSE, t |-> 0]]

Page(items, next) == [items |-> items, nextPageToken |-> next]

\* 120 items newest first (item k published at hour 121 - k), pages of 50/50/20
Feed120 ==
  [tok \in {NoToken, "P2", "P3"} |->
     IF tok = NoToken THEN Page([k \in 1..50 |-> Item(k, 121 - k)], "P2")
     ELSE IF tok = "P2" THEN Page([k \in 1..50 |-> Item(50 + k, 71 - k)], "P3")
     ELSE Page([k \in 1..20 |-> Item(100 + k, 21 - k)], NoToken)]

\* 5 items newest first on pages of 2/2/1
FeedSmall ==
  [tok \in {NoToken, "P2", "P3"} |->
     IF tok = NoToken THEN Page(<<Item(1, 10), Item(2, 9)>>, "P2")
     ELSE IF tok = "P2" THEN Page(<<Item(3, 8), Item(4, 7)>>, "P3")
     ELSE Page(<<Item(5, 6)>>, NoToken)]

\* a feed that is not sorted and carries an unparsable timestamp
FeedUnsorted ==
  [tok \in {NoToken, "P2", "P3"} |->
     IF tok = NoToken THEN Page(<<Item(1, 10), Item(2, 3)>>, "P2")
     ELSE IF tok = "P2" THEN Page(<<BadItem(3), Item(4, 9)>>, "P3")
     ELSE Page(<<>>, NoToken)]

\* the runs of getRecentVideos tried: feed, Date.now() and hoursBack
Scenarios ==
  {[feed |-> Feed120, now |-> 121, hoursBack |-> 55]}
  \cup {[feed |-> FeedSmall, now |-> 10, hoursBack |-> h] : h \in {0, 2, 5}}
  \cup {[feed |-> FeedUnsorted, now |-> 10, hoursBack |-> h] : h \in {2, 5}}

\* 60 items newest first on 2 pages of 30 (item k published at hour 61 - k)
Feed60 ==
  [tok \in {NoToken, "P2"} |->
     IF tok = NoToken THEN Page([k \in 1..30 |-> Item(k, 61 - k)], "P2")
     ELSE Page([k \in 1..30 |-> Item(30 + k, 31 - k)], NoToken)]

\* a feed whose second page names itself as the next page
FeedCycle ==
  [tok \in {NoToken, "P2"} |->
     IF tok = NoToken THEN Page(<<Item(1, 10)>>, "P2")
     ELSE Page(<<BadItem(2)>>, "P2")]

\* the runs of getRecentVideos tried in the specification of the page walk
ListScenarios ==
  Scenarios
  \cup {[feed |-> FeedUnsorted, now |-> 10, hoursBack |-> 8],
        [feed |-> Feed60, now |-> 61, hoursBack |-> 61],
        [feed |-> FeedCycle, now |-> 10, hoursBack |-> 5]}

Contexts == {"", "YouTube/playlistItems"}

\* ------------------------------------------------------------------ state
VARIABLES
  mode,           \* which operation runs: "none", "fetch", "list", "delete", "netlify"
  history,        \* whether pageRequests and fetched are recorded
  cur,            \* the invocation that runs: 1 or 2
  parked,         \* locals of the invocation that waits for its turn
  maxRetries,     \* fetchWithRetry: argument maxRetries
  context,        \* fetchWithRetry: argument context (the label)
  i,              \* fetchWithRetry: loop index
  fpc,            \* fetchWithRetry: "idle", "loop", "fetching", "sleeping", "returned", "threw"
  nreq,           \* HTTP requests issued by the current call
  inflight,       \* HTTP requests issued and not yet answered
  res,            \* last response received
  delayMs,        \* delayMs computed for the last retryable response
  nwaits,         \* timers awaited by the current call
  waitedMs,       \* time the current call has spent in its timers
  ferr,           \* error thrown by fetchWithRetry
  feed,           \* getRecentVideos: the playlist served by the API
  cutoffDate,     \* getRecentVideos: cutoffDate
  videos,         \* getRecentVideos: videos
  nextPageToken,  \* getRecentVideos: nextPageToken
  cpc,            \* getRecentVideos: "idle", "top", "await", "done", "failed"
  pageRequests,   \* page tokens of the page requests made, in order
  fetched,        \* data of the ok page responses processed, in order
  cerr,           \* error thrown by getRecentVideos
  req,            \* delete handler: the request
  target,         \* delete handler: videoId of the request
  pageToken,      \* findPlaylistItemId: pageToken
  lpc,            \* findPlaylistItemId: "idle", "top", "await", "done", "failed"
  lresult,        \* findPlaylistItemId: value returned (NoId for null)
  lerr,           \* findPlaylistItemId: error thrown
  hpc,            \* delete handler: "idle", "token", "lookup", "delete", "responded"
  hresp,          \* delete handler: response sent
  deleteCalls,    \* playlist item ids deletePlaylistItem was called with
  summarizeBtnDisabled, \* page: elements.summarizeBtn.disabled
  progressActive, \* page: progressSection has the class active
  modalOpen,      \* page: modalOverlay has the class active
  upc,            \* summarizePlaylist: "idle", "listing", "processing"
  activeRuns,     \* invocations of summarizePlaylist that have not ended
  uiVideos,       \* summarizePlaylist: videos of the list response
  uiI,            \* summarizePlaylist: position in videos of the video processed
  results,        \* summarizePlaylist: results
  processRequests, \* video ids of the process requests made in the run, in order
  processInFlight, \* process requests made and not yet answered
  resultsGrid,    \* page: the cards of resultsGrid, each a DOM element
  disabledBtns,   \* cards (elements) whose delete button is disabled
  deletes,        \* delete click handlers that wait for a response or a timer
  removed,        \* video ids whose card was removed in the current run
  tpc,            \* fetchTranscript: "idle", "first", "waiting", "polling", "done"
  pollI,          \* fetchTranscript: i of the polling loop
  polls,          \* job requests made
  tWaitedMs,      \* milliseconds waited before job requests
  tJobId,         \* fetchTranscript: jobId
  lastPoll,       \* the last answer to a job request
  tresult         \* what fetchTranscript returned

fvars == <<maxRetries, context, i, fpc, nreq, inflight, res, delayMs, nwaits, waitedMs, ferr>>

cvars == <<feed, cutoffDate, videos, nextPageToken, cpc, pageRequests, fetched, cerr>>

lvars == <<req, target, pageToken, lpc, lresult, lerr, hpc, hresp, deleteCalls>>

\* what no function writes
uvars ==
  <<summarizeBtnDisabled, progressActive, modalOpen, upc, activeRuns, uiVideos, uiI,
    results, processRequests, processInFlight, resultsGrid, disabledBtns, deletes,
    removed>>

pvars == <<tpc, pollI, polls, tWaitedMs, tJobId, lastPoll, tresult>>

aux == <<history, cur, parked, uvars, pvars>>

\* what fetchTranscript leaves alone
notPoll == <<mode, history, cur, parked, fvars, cvars, lvars, uvars>>

\* what the page leaves alone
backend == <<mode, history, cur, parked, fvars, cvars, lvars, pvars>>

vars == <<mode, aux, fvars, cvars, lvars>>

NoRes == [status |-> 0, ra |-> NoHeader, body |-> "empty"]

NoErr == [kind |-> "none", status |-> 0, message |-> <<>>]

\* null or undefined in place of a playlist item id
NoId == ""

\* the request of the delete handler: method, the body fields read and
\* whether each environment variable is set
NoReq ==
  [method |-> "", videoId |-> "", video_id |-> "", playlistId |-> "", playlist_id |-> "",
   clientId |-> FALSE, clientSecret |-> FALSE, refreshToken |-> FALSE]

NoResp == [status |-> 0, error |-> "", success |-> FALSE, playlistItemId |-> NoId]

\* the locals of an invocation that has not started
IdleLocals ==
  [mode |-> "none", maxRetries |-> DefaultMaxRetries, context |-> "",
   i |-> 0, fpc |-> "idle", nreq |-> 0, inflight |-> 0, res |-> NoRes,
   delayMs |-> Num(0), nwaits |-> 0, waitedMs |-> 0, ferr |-> NoErr,
   feed |-> FeedSmall, cutoffDate |-> Num(0), videos |-> <<>>,
   nextPageToken |-> NoToken, cpc |-> "idle", pageRequests |-> <<>>,
   fetched |-> <<>>, cerr |-> NoErr, req |-> NoReq,
   target |-> "", pageToken |-> NoToken,
   lpc |-> "idle", lresult |-> NoId, lerr |-> NoErr, hpc |-> "idle",
   hresp |-> NoResp, deleteCalls |-> <<>>]

\* the locals of the running invocation
Locals ==
  [mode |-> mode, maxRetries |-> maxRetries, context |-> context, i |-> i,
   fpc |-> fpc, nreq |-> nreq, inflight |-> inflight, res |-> res,
   delayMs |-> delayMs, nwaits |-> nwaits, waitedMs |-> waitedMs,
   ferr |-> ferr, feed |-> feed, cutoffDate |-> cutoffDate,
   videos |-> videos, nextPageToken |-> nextPageToken, cpc |-> cpc,
   pageRequests |-> pageRequests, fetched |-> fetched, cerr |-> cerr,
   req |-> req, target |-> target, pageToken |-> pageToken, lpc |-> lpc,
   lresult |-> lresult, lerr |-> lerr, hpc |-> hpc, hresp |-> hresp,
   deleteCalls |-> deleteCalls]

\* nothing runs yet
Idle ==
  /\ summarizeBtnDisabled = FALSE
  /\ progressActive = FALSE
  /\ modalOpen = FALSE
  /\ upc = "idle"
  /\ activeRuns = 0
  /\ uiVideos = <<>>
  /\ uiI = 0
  /\ results = <<>>
  /\ processRequests = <<>>
  /\ processInFlight = 0
  /\ resultsGrid = <<>>
  /\ disabledBtns = {}
  /\ deletes = {}
  /\ removed = {}
  /\ tpc = "idle"
  /\ pollI = 0
  /\ polls = 0
  /\ tWaitedMs = 0
  /\ tJobId = ""
  /\ lastPoll = [status |-> 0, body |-> [kind |-> "none", jobId |-> "", job_id |-> "",
                                        content |-> "", status |-> ""]]
  /\ tresult = [kind |-> "pending", text |-> ""]
  /\ cur = 1
  /\ parked = IdleLocals
  /\ mode = "none"
  /\ maxRetries = DefaultMaxRetries
  /\ context = ""
  /\ i = 0
  /\ fpc = "idle"
  /\ nreq = 0
  /\ inflight = 0
  /\ res = NoRes
  /\ delayMs = Num(0)
  /\ nwaits = 0
  /\ waitedMs = 0
  /\ ferr = NoErr
  /\ feed = FeedSmall
  /\ cutoffDate = Num(0)
  /\ videos = <<>>
  /\ nextPageToken = NoToken
  /\ cpc = "idle"
  /\ pageRequests = <<>>
  /\ fetched = <<>>
  /\ cerr = NoErr
  /\ req = NoReq
  /\ target = ""
  /\ pageToken = NoToken
  /\ lpc = "idle"
  /\ lresult = NoId
  /\ lerr = NoErr
  /\ hpc = "idle"
  /\ hresp = NoResp
  /\ deleteCalls = <<>>

Init == Idle /\ history = TRUE

\* the record of the page walk grows while it is kept
Record(seq, x) == IF history THEN Append(seq, x) ELSE seq

\* --------------------------------------------------------- fetchWithRetry
\* entry of fetchWithRetry(url, options, mr, ctx)
EnterFetchWithRetry(mr, ctx) ==
  /\ maxRetries' = mr
  /\ context' = ctx
  /\ i' = 0
  /\ fpc' = "loop"
  /\ nreq' = 0
  /\ inflight' = inflight
  /\ res' = NoRes
  /\ delayMs' = Num(0)
  /\ nwaits' = 0
  /\ waitedMs' = 0
  /\ ferr' = NoErr

\* a direct call of fetchWithRetry
CallFetchWithRetry(mr, ctx) ==
  /\ mode = "none"
  /\ mode' = "fetch"
  /\ UNCHANGED aux
  /\ EnterFetchWithRetry(mr, ctx)
  /\ UNCHANGED <<cvars, lvars>>

\* loop condition off by one
LoopCondInclusive == i <= maxRetries

\* loop condition i < maxRetries
LoopCond == i < maxRetries

\* for (...; i < maxRetries; ...) { const res = await fetch(url, options)
Attempt ==
  /\ fpc = "loop"
  /\ LoopCond
  /\ fpc' = "fetching"
  /\ nreq' = nreq + 1
  /\ inflight' = inflight + 1
  /\ UNCHANGED <<mode, aux, maxRetries, context, i, res, delayMs, nwaits, waitedMs, ferr, cvars, lvars>>

\* message of the error thrown after the loop
ExhaustedMessage(ctx) ==
  IF ctx # "" THEN <<ctx, ": ", "Max retries exceeded">> ELSE <<"Max retries exceeded">>

\* the loop ends and the last response is handed to the caller
ExhaustedPassthrough ==
  /\ fpc = "loop"
  /\ ~LoopCond
  /\ fpc' = "returned"
  /\ UNCHANGED <<mode, aux, inflight, maxRetries, context, i, nreq, res, delayMs, nwaits, waitedMs, ferr, cvars, lvars>>

\* the loop ends: throw new Error(`...Max retries exceeded`)
Exhausted ==
  /\ fpc = "loop"
  /\ ~LoopCond
  /\ fpc' = "threw"
  /\ ferr' = [kind |-> "exhausted", status |-> 0, message |-> ExhaustedMessage(context)]
  /\ UNCHANGED <<mode, aux, inflight, maxRetries, context, i, nreq, res, delayMs, nwaits, waitedMs, cvars, lvars>>

\* 500 taken for a transient status as well
IsRetryableWith500(status) == status \in retryable \cup {500}

\* retryable.has(res.status)
IsRetryable(status) == status \in retryable

\* the response is not retryable: return res
ReturnResponse(st, ra, body) ==
  /\ fpc = "fetching"
  /\ ~IsRetryable(st)
  /\ res' = [status |-> st, ra |-> ra, body |-> body]
  /\ fpc' = "returned"
  /\ inflight' = inflight - 1
  /\ UNCHANGED <<mode, aux, maxRetries, context, i, nreq, delayMs, nwaits, waitedMs, ferr, cvars, lvars>>

\* the response is retryable and the next attempt follows at once: the timer
\* is started but not awaited
RetryableResponseNoWait(st, ra) ==
  /\ fpc = "fetching"
  /\ IsRetryable(st)
  /\ res' = [status |-> st, ra |-> ra, body |-> "empty"]
  /\ delayMs' = DelayMs(ra, i)
  /\ i' = i + 1
  /\ fpc' = "loop"
  /\ inflight' = inflight - 1
  /\ UNCHANGED <<mode, aux, maxRetries, context, nreq, nwaits, waitedMs, ferr, cvars, lvars>>

\* the response is retryable: compute delayMs and start the timer (the body of
\* such a response is never read)
RetryableResponse(st, ra) ==
  /\ fpc = "fetching"
  /\ IsRetryable(st)
  /\ res' = [status |-> st, ra |-> ra, body |-> "empty"]
  /\ delayMs' = DelayMs(ra, i)
  /\ fpc' = "sleeping"
  /\ inflight' = inflight - 1
  /\ UNCHANGED <<mode, aux, maxRetries, context, i, nreq, nwaits, waitedMs, ferr, cvars, lvars>>

\* the rejection of fetch is caught and the attempt is repeated after the
\* exponential delay
FetchThrowsRetried ==
  /\ fpc = "fetching"
  /\ fpc' = "sleeping"
  /\ delayMs' = DelayMs(NoHeader, i)
  /\ ferr' = [kind |-> "transport", status |-> 0, message |-> <<"fetch failed">>]
  /\ inflight' = inflight - 1
  /\ UNCHANGED <<mode, aux, maxRetries, context, i, nreq, res, nwaits, waitedMs, cvars, lvars>>

\* fetch itself rejects (transport failure): the error leaves fetchWithRetry
FetchThrows ==
  /\ fpc = "fetching"
  /\ fpc' = "threw"
  /\ ferr' = [kind |-> "transport", status |-> 0, message |-> <<"fetch failed">>]
  /\ inflight' = inflight - 1
  /\ UNCHANGED <<mode, aux, maxRetries, context, i, nreq, res, delayMs, nwaits, waitedMs, cvars, lvars>>

\* the timer of await new Promise(r => setTimeout(r, delayMs)) fires; i++
TimerFires ==
  /\ fpc = "sleeping"
  /\ waitedMs' = waitedMs + TimerMs(delayMs)
  /\ nwaits' = nwaits + 1
  /\ i' = i + 1
  /\ fpc' = "loop"
  /\ UNCHANGED <<mode, aux, inflight, maxRetries, context, nreq, res, delayMs, ferr, cvars, lvars>>

\* -------------------------------------------------------- getRecentVideos
\* entry of getRecentVideos(playlistId, apiKey, hoursBack)
CallGetRecentVideos(sc) ==
  /\ mode = "none"
  /\ mode' = "list"
  /\ UNCHANGED aux
  /\ feed' = sc.feed
  /\ cutoffDate' = Num(sc.now - sc.hoursBack)
  /\ videos' = <<>>
  /\ nextPageToken' = NoToken
  /\ cpc' = "top"
  /\ UNCHANGED <<pageRequests, fetched, cerr, fvars, lvars>>

\* top of the do body: build the url and call fetchWithRetry(url, {}, 3, label)
RequestPage ==
  /\ cpc = "top"
  /\ history => Len(pageRequests) < MaxPages
  /\ pageRequests' = Record(pageRequests, nextPageToken)
  /\ EnterFetchWithRetry(DefaultMaxRetries, "YouTube/playlistItems")
  /\ cpc' = "await"
  /\ UNCHANGED <<mode, aux, feed, cutoffDate, videos, nextPageToken, fetched, cerr, lvars>>

\* the filter written as !(publishedAt < cutoffDate)
QualifyingNotLess(items, cutoff) ==
  SelectSeq(items, LAMBDA it : ~JsLT(DateOf(it.publishedAt), cutoff))

\* the filter written as publishedAt > cutoffDate
QualifyingStrict(items, cutoff) ==
  SelectSeq(items, LAMBDA it : JsLT(cutoff, DateOf(it.publishedAt)))

\* the items of a page that pass publishedAt >= cutoffDate, in order
Qualifying(items, cutoff) ==
  SelectSeq(items, LAMBDA it : JsGE(DateOf(it.publishedAt), cutoff))

\* data after safeParseJson of an ok response: null for an empty body, and
\* neither items nor nextPageToken in a JSON body without these fields
PageData(body, tok) == IF body \in {"empty", "other"} THEN Page(<<>>, NoToken) ELSE feed[tok]

\* the early stop looks at the first item of the page
PastCutoffFirstItem(items, cutoff) ==
  /\ Len(items) > 0
  /\ JsLT(DateOf(items[1].publishedAt), cutoff)

\* the early stop written as !(lastDate >= cutoffDate)
PastCutoffNotAtOrAfter(items, cutoff) ==
  /\ Len(items) > 0
  /\ ~JsGE(DateOf(items[Len(items)].publishedAt), cutoff)

\* if (data?.items?.length) { lastDate < cutoffDate -> break }
PastCutoff(items, cutoff) ==
  /\ Len(items) > 0
  /\ JsLT(DateOf(items[Len(items)].publishedAt), cutoff)

\* the loop condition without the cap
WhileCondNoCap(tok, vids) == tok # NoToken

\* the cap compared with <= instead of <
WhileCondInclusive(tok, vids) == tok # NoToken /\ Len(vids) <= ItemCap

\* while (nextPageToken && videos.length < 50)
WhileCond(tok, vids) == tok # NoToken /\ Len(vids) < ItemCap

\* fetchWithRetry returned: safeParseJson, the ok check, the item loop, the
\* early stop and the loop condition
PageReturned ==
  /\ cpc = "await"
  /\ fpc = "returned"
  /\ fpc' = "idle"
  /\ IF res.body = "invalid"
     THEN /\ cpc' = "failed"
          /\ cerr' = [kind |-> "invalidjson", status |-> res.status,
                      message |-> <<context, ": Invalid JSON response">>]
          /\ UNCHANGED <<videos, nextPageToken, fetched>>
     ELSE IF ~IsOk(res.status)
     THEN /\ cpc' = "failed"
          /\ cerr' = [kind |-> "http", status |-> res.status,
                      message |-> <<"Failed to fetch playlist items">>]
          /\ UNCHANGED <<videos, nextPageToken, fetched>>
     ELSE LET data == PageData(res.body, nextPageToken)
              vids == videos \o Qualifying(data.items, cutoffDate)
          IN /\ videos' = vids
             /\ fetched' = Record(fetched, data)
             /\ nextPageToken' = data.nextPageToken
             /\ cpc' = IF PastCutoff(data.items, cutoffDate) THEN "done"
                       ELSE IF WhileCond(data.nextPageToken, vids) THEN "top"
                       ELSE "done"
             /\ cerr' = cerr
  /\ UNCHANGED <<mode, aux, inflight, maxRetries, context, i, nreq, res, delayMs, nwaits, waitedMs, ferr,
                 feed, cutoffDate, pageRequests, lvars>>

\* the error of fetchWithRetry is caught and the items gathered are returned
PageFetchThrewPartial ==
  /\ cpc = "await"
  /\ fpc = "threw"
  /\ fpc' = "idle"
  /\ cpc' = "done"
  /\ UNCHANGED <<mode, aux, inflight, maxRetries, context, i, nreq, res, delayMs, nwaits, waitedMs, ferr,
                 feed, cutoffDate, videos, nextPageToken, pageRequests, fetched, cerr, lvars>>

\* fetchWithRetry threw: the error leaves getRecentVideos
PageFetchThrew ==
  /\ cpc = "await"
  /\ fpc = "threw"
  /\ fpc' = "idle"
  /\ cpc' = "failed"
  /\ cerr' = ferr
  /\ UNCHANGED <<mode, aux, inflight, maxRetries, context, i, nreq, res, delayMs, nwaits, waitedMs, ferr,
                 feed, cutoffDate, videos, nextPageToken, pageRequests, fetched, lvars>>

\* ------------------------------------------------------------ specification
Next ==
  \/ \E mr \in 0..MaxRetriesArg, ctx \in Contexts : CallFetchWithRetry(mr, ctx)
  \/ Attempt
  \/ Exhausted
  \/ \E st \in Statuses, ra \in RetryAfterValues, body \in BodyKinds : ReturnResponse(st, ra, body)
  \/ \E st \in Statuses, ra \in RetryAfterValues : RetryableResponse(st, ra)
  \/ FetchThrows
  \/ TimerFires
  \/ \E sc \in Scenarios : CallGetRecentVideos(sc)
  \/ RequestPage
  \/ PageReturned
  \/ PageFetchThrew

Spec == Init /\ [][Next]_vars

\* the page walk of getRecentVideos alone
NextList ==
  \/ \E sc \in ListScenarios : CallGetRecentVideos(sc)
  \/ RequestPage
  \/ Attempt
  \/ Exhausted
  \/ \E st \in Statuses, ra \in RetryAfterValues, body \in BodyKinds : ReturnResponse(st, ra, body)
  \/ \E st \in Statuses, ra \in RetryAfterValues : RetryableResponse(st, ra)
  \/ FetchThrows
  \/ TimerFires
  \/ PageReturned
  \/ PageFetchThrew

SpecList == Init /\ [][NextList]_vars

TypeOK ==
  /\ cur \in {1, 2}
  /\ mode \in {"none", "fetch", "list", "delete", "netlify"}
  /\ lpc \in {"idle", "top", "await", "done", "failed"}
  /\ hpc \in {"idle", "token", "lookup", "delete", "responded"}
  /\ fpc \in {"idle", "loop", "fetching", "sleeping", "returned", "threw"}
  /\ cpc \in {"idle", "top", "await", "done", "failed"}
  /\ i \in Nat /\ nreq \in Nat /\ nwaits \in Nat /\ waitedMs \in Nat
  /\ res.status \in Statuses \cup {0}

\* ------------------------------------------- delete handler and lookup
\* an item of the playlistItems listing: its id and snippet.resourceId.videoId
PlItem(id, vid) == [id |-> id, videoId |-> vid]

\* 5 playlist items on pages of 3/1/1; video v2 is listed twice
LookupFeed ==
  [tok \in {NoToken, "P2", "P3"} |->
     IF tok = NoToken
     THEN Page(<<PlItem("a1", "v1"), PlItem("a2", "v2"), PlItem("a3", "v2")>>, "P2")
     ELSE IF tok = "P2" THEN Page(<<PlItem("a4", "v4")>>, "P3")
     ELSE Page(<<PlItem("a5", "v5")>>, NoToken)]

\* a listing whose second page names itself as the next page
LookupFeedCycle ==
  [tok \in {NoToken, "P2"} |->
     IF tok = NoToken THEN Page(<<PlItem("a1", "v1")>>, "P2")
     ELSE Page(<<PlItem("a2", "v2")>>, "P2")]

\* the delete requests tried: the playlist served and the videoId asked for
LookupScenarios ==
  {[feed |-> LookupFeed, videoId |-> v] : v \in {"v1", "v2", "v4", "v5", "v9"}}
  \cup {[feed |-> LookupFeedCycle, videoId |-> v] : v \in {"v2", "v9"}}

\* bodies of the responses in a delete request: "other" is valid JSON without
\* the fields read (no access_token, no items, no nextPageToken)
LookupBodyKinds == BodyKinds \cup {"other"}

\* error.statusCode || 500
StatusOr500(code) == IF code # 0 THEN code ELSE 500

\* return res.status(code).json({ error: message })
RespondError(code, message) ==
  /\ hpc' = "responded"
  /\ hresp' = [status |-> code, error |-> message, success |-> FALSE, playlistItemId |-> NoId]

\* fetchWithRetry has returned or thrown and its caller has taken the outcome:
\* the locals of the call are gone
LeaveFetchWithRetry ==
  /\ fpc' = "idle"
  /\ maxRetries' = DefaultMaxRetries
  /\ context' = ""
  /\ i' = 0
  /\ nreq' = 0
  /\ inflight' = inflight
  /\ res' = NoRes
  /\ delayMs' = Num(0)
  /\ nwaits' = 0
  /\ waitedMs' = 0
  /\ ferr' = NoErr

\* a || b on strings
OrElse(a, b) == IF a # "" THEN a ELSE b

\* a POST request for the video with everything in place
PostRequest(vid) ==
  [method |-> "POST", videoId |-> vid, video_id |-> "", playlistId |-> "PL", playlist_id |-> "",
   clientId |-> TRUE, clientSecret |-> TRUE, refreshToken |-> TRUE]

\* the requests tried
Requests ==
  [method : {"POST", "GET", "OPTIONS"}, videoId : {"", "v4"}, video_id : {"", "v1"},
   playlistId : {"", "PL"}, playlist_id : {"", "PL2"},
   clientId : BOOLEAN, clientSecret : BOOLEAN, refreshToken : BOOLEAN]

\* the answer of a check that lets the request pass
Passed == [status |-> 0, error |-> ""]

\* the checks with playlistId looked at before videoId
ValidatePlaylistFirst(r) ==
  IF r.method = "OPTIONS" THEN [status |-> 204, error |-> ""]
  ELSE IF r.method # "POST" THEN [status |-> 405, error |-> "Method not allowed"]
  ELSE IF OrElse(r.playlistId, r.playlist_id) = "" THEN [status |-> 400, error |-> "Missing playlistId"]
  ELSE IF OrElse(r.videoId, r.video_id) = "" THEN [status |-> 400, error |-> "Missing videoId"]
  ELSE IF ~r.clientId \/ ~r.clientSecret \/ ~r.refreshToken
  THEN [status |-> 500, error |-> "Server missing YouTube OAuth env vars"]
  ELSE Passed

\* the checks of handler before its try block, in their order
Validate(r) ==
  IF r.method = "OPTIONS" THEN [status |-> 204, error |-> ""]
  ELSE IF r.method # "POST" THEN [status |-> 405, error |-> "Method not allowed"]
  ELSE IF OrElse(r.videoId, r.video_id) = "" THEN [status |-> 400, error |-> "Missing videoId"]
  ELSE IF OrElse(r.playlistId, r.playlist_id) = "" THEN [status |-> 400, error |-> "Missing playlistId"]
  ELSE IF ~r.clientId \/ ~r.clientSecret \/ ~r.refreshToken
  THEN [status |-> 500, error |-> "Server missing YouTube OAuth env vars"]
  ELSE Passed

\* handler(req, res) up to its first await: the checks, then the try block
\* calls exchangeRefreshToken
Handler(r, fd) ==
  /\ mode = "none"
  /\ mode' = "delete"
  /\ UNCHANGED aux
  /\ req' = r
  /\ feed' = fd
  /\ IF Validate(r) # Passed
     THEN /\ hpc' = "responded"
          /\ hresp' = [status |-> Validate(r).status, error |-> Validate(r).error,
                       success |-> FALSE, playlistItemId |-> NoId]
          /\ UNCHANGED <<target, fvars>>
     ELSE /\ target' = OrElse(r.videoId, r.video_id)
          /\ hpc' = "token"
          /\ hresp' = hresp
          /\ EnterFetchWithRetry(DefaultMaxRetries, "OAuth/token")
  /\ UNCHANGED <<cutoffDate, videos, nextPageToken, cpc, pageRequests, fetched, cerr,
                 pageToken, lpc, lresult, lerr, deleteCalls>>

\* handler for a valid request
CallDeleteHandler(sc) == Handler(PostRequest(sc.videoId), sc.feed)

\* exchangeRefreshToken after its fetchWithRetry returned; with an access token
\* the handler enters findPlaylistItemId
TokenReturned ==
  /\ hpc = "token"
  /\ fpc = "returned"
  /\ LeaveFetchWithRetry
  /\ IF ~IsOk(res.status)
     THEN /\ RespondError(StatusOr500(res.status), "Failed to refresh token")
          /\ UNCHANGED <<pageToken, lpc>>
     ELSE IF res.body \in {"invalid", "empty"}
     THEN /\ RespondError(StatusOr500(0), "Unexpected token in JSON")
          /\ UNCHANGED <<pageToken, lpc>>
     ELSE IF res.body = "other"
     THEN /\ RespondError(StatusOr500(500), "No access_token in response")
          /\ UNCHANGED <<pageToken, lpc>>
     ELSE /\ hpc' = "lookup"
          /\ pageToken' = NoToken
          /\ lpc' = "top"
          /\ hresp' = hresp
  /\ UNCHANGED <<mode, aux,
                 cvars, req, target, lresult, lerr, deleteCalls>>

\* fetchWithRetry threw in exchangeRefreshToken: the catch block answers
TokenThrew ==
  /\ hpc = "token"
  /\ fpc = "threw"
  /\ LeaveFetchWithRetry
  /\ RespondError(StatusOr500(0), ferr.message[Len(ferr.message)])
  /\ UNCHANGED <<mode, aux,
                 cvars, req, target, pageToken, lpc, lresult, lerr, deleteCalls>>

\* the url is built without the pageToken parameter
LookupRequestPageFirst ==
  /\ lpc = "top"
  /\ history => Len(pageRequests) < MaxPages
  /\ pageRequests' = Record(pageRequests, NoToken)
  /\ EnterFetchWithRetry(DefaultMaxRetries, "YouTube/playlistItems")
  /\ lpc' = "await"
  /\ UNCHANGED <<mode, aux, feed, cutoffDate, videos, nextPageToken, cpc, fetched, cerr,
                 req, target, pageToken, lresult, lerr, hpc, hresp, deleteCalls>>

\* top of while (true): build the url and call fetchWithRetry
LookupRequestPage ==
  /\ lpc = "top"
  /\ history => Len(pageRequests) < MaxPages
  /\ pageRequests' = Record(pageRequests, pageToken)
  /\ EnterFetchWithRetry(DefaultMaxRetries, "YouTube/playlistItems")
  /\ lpc' = "await"
  /\ UNCHANGED <<mode, aux, feed, cutoffDate, videos, nextPageToken, cpc, fetched, cerr,
                 req, target, pageToken, lresult, lerr, hpc, hresp, deleteCalls>>

\* find returns the last matching item
LastMatch(items, vid) ==
  IF \E k \in 1..Len(items) : items[k].videoId = vid
  THEN CHOOSE k \in 1..Len(items) :
         /\ items[k].videoId = vid
         /\ \A j \in (k + 1)..Len(items) : items[j].videoId # vid
  ELSE 0

\* (data.items || []).find(item => item.snippet.resourceId.videoId === videoId):
\* index of the first match, 0 for undefined
FirstMatch(items, vid) ==
  IF \E k \in 1..Len(items) : items[k].videoId = vid
  THEN CHOOSE k \in 1..Len(items) :
         /\ items[k].videoId = vid
         /\ \A j \in 1..(k - 1) : items[j].videoId # vid
  ELSE 0

\* the walk stops after the first page
HasNextNever(tok) == FALSE

\* pageToken = data.nextPageToken; if (!pageToken) break
HasNext(tok) == tok # NoToken

\* data of await res.json() for an ok response with a JSON body
LookupData(body, tok) == IF body = "other" THEN Page(<<>>, NoToken) ELSE feed[tok]

\* fetchWithRetry returned in findPlaylistItemId: the ok check, res.json(), the
\* search of the page and the step to the next page
LookupPageReturned ==
  /\ lpc = "await"
  /\ fpc = "returned"
  /\ LeaveFetchWithRetry
  /\ IF ~IsOk(res.status)
     THEN /\ lpc' = "failed"
          /\ lerr' = [kind |-> "http", status |-> res.status,
                      message |-> <<"Failed to fetch playlist items">>]
          /\ UNCHANGED <<pageToken, lresult, fetched>>
     ELSE IF res.body \in {"invalid", "empty"}
     THEN /\ lpc' = "failed"
          /\ lerr' = [kind |-> "syntax", status |-> 0, message |-> <<"Unexpected token in JSON">>]
          /\ UNCHANGED <<pageToken, lresult, fetched>>
     ELSE LET data == LookupData(res.body, pageToken)
              match == FirstMatch(data.items, target)
          IN /\ fetched' = Record(fetched, data)
             /\ lerr' = lerr
             /\ IF match # 0
                THEN /\ lresult' = data.items[match].id
                     /\ lpc' = "done"
                     /\ pageToken' = pageToken
                ELSE /\ pageToken' = data.nextPageToken
                     /\ lresult' = lresult
                     /\ lpc' = IF HasNext(data.nextPageToken) THEN "top" ELSE "done"
  /\ UNCHANGED <<mode, aux,
                 feed, cutoffDate, videos, nextPageToken, cpc, pageRequests, cerr,
                 req, target, hpc, hresp, deleteCalls>>

\* the error of fetchWithRetry is swallowed and null is returned
LookupFetchThrewSwallowed ==
  /\ lpc = "await"
  /\ fpc = "threw"
  /\ LeaveFetchWithRetry
  /\ lpc' = "done"
  /\ UNCHANGED <<mode, aux,
                 cvars, req, target, pageToken, lresult, lerr, hpc, hresp, deleteCalls>>

\* fetchWithRetry threw: the error leaves findPlaylistItemId
LookupFetchThrew ==
  /\ lpc = "await"
  /\ fpc = "threw"
  /\ LeaveFetchWithRetry
  /\ lpc' = "failed"
  /\ lerr' = ferr
  /\ UNCHANGED <<mode, aux,
                 cvars, req, target, pageToken, lresult, hpc, hresp, deleteCalls>>

\* handler after findPlaylistItemId: the catch block on an error, 404 when no
\* id came back, else the call of deletePlaylistItem
AfterLookup ==
  /\ hpc = "lookup"
  /\ lpc \in {"done", "failed"}
  /\ IF lpc = "failed"
     THEN /\ RespondError(StatusOr500(lerr.status), lerr.message[Len(lerr.message)])
          /\ UNCHANGED <<fvars, deleteCalls>>
     ELSE IF lresult = NoId
     THEN /\ RespondError(404, "Video not found in playlist")
          /\ UNCHANGED <<fvars, deleteCalls>>
     ELSE /\ deleteCalls' = Append(deleteCalls, lresult)
          /\ EnterFetchWithRetry(DefaultMaxRetries, "YouTube/delete")
          /\ hpc' = "delete"
          /\ hresp' = hresp
  /\ UNCHANGED <<mode, aux, cvars, req, target, pageToken, lpc, lresult, lerr>>

\* deletePlaylistItem without the ok check: whatever the DELETE got, success
DeleteReturnedUnchecked ==
  /\ hpc = "delete"
  /\ fpc = "returned"
  /\ LeaveFetchWithRetry
  /\ hpc' = "responded"
  /\ hresp' = [status |-> 200, error |-> "", success |-> TRUE, playlistItemId |-> lresult]
  /\ UNCHANGED <<mode, aux,
                 cvars, req, target, pageToken, lpc, lresult, lerr, deleteCalls>>

\* deletePlaylistItem after its fetchWithRetry returned, and the answer
DeleteReturned ==
  /\ hpc = "delete"
  /\ fpc = "returned"
  /\ LeaveFetchWithRetry
  /\ IF ~IsOk(res.status)
     THEN RespondError(StatusOr500(res.status), "Failed to delete playlist item")
     ELSE /\ hpc' = "responded"
          /\ hresp' = [status |-> 200, error |-> "", success |-> TRUE,
                       playlistItemId |-> lresult]
  /\ UNCHANGED <<mode, aux,
                 cvars, req, target, pageToken, lpc, lresult, lerr, deleteCalls>>

\* fetchWithRetry threw in deletePlaylistItem: the catch block answers
DeleteThrew ==
  /\ hpc = "delete"
  /\ fpc = "threw"
  /\ LeaveFetchWithRetry
  /\ RespondError(StatusOr500(0), ferr.message[Len(ferr.message)])
  /\ UNCHANGED <<mode, aux,
                 cvars, req, target, pageToken, lpc, lresult, lerr, deleteCalls>>

\* the delete handler with its token exchange, lookup and delete
NextDelete ==
  \/ \E sc \in LookupScenarios : CallDeleteHandler(sc)
  \/ TokenReturned
  \/ TokenThrew
  \/ LookupRequestPage
  \/ LookupPageReturned
  \/ LookupFetchThrew
  \/ AfterLookup
  \/ DeleteReturned
  \/ DeleteThrew
  \/ Attempt
  \/ Exhausted
  \/ \E st \in Statuses, ra \in RetryAfterValues, body \in LookupBodyKinds :
       ReturnResponse(st, ra, body)
  \/ \E st \in Statuses, ra \in RetryAfterValues : RetryableResponse(st, ra)
  \/ FetchThrows
  \/ TimerFires

SpecDelete == Init /\ [][NextDelete]_vars

\* the delete handler with the checks of its request
NextHandler ==
  \/ \E r \in Requests : Handler(r, LookupFeed)
  \/ TokenReturned
  \/ TokenThrew
  \/ LookupRequestPage
  \/ LookupPageReturned
  \/ LookupFetchThrew
  \/ AfterLookup
  \/ DeleteReturned
  \/ DeleteThrew
  \/ Attempt
  \/ Exhausted
  \/ \E st \in {200, 404} : ReturnResponse(st, NoHeader, "json")
  \/ RetryableResponse(503, NoHeader)
  \/ FetchThrows
  \/ TimerFires

SpecHandler == Init /\ [][NextHandler]_vars

\* both page walks: getRecentVideos and the delete handler with its lookup
NextWalks ==
  \/ \E sc \in ListScenarios : CallGetRecentVideos(sc)
  \/ RequestPage
  \/ PageReturned
  \/ PageFetchThrew
  \/ \E sc \in LookupScenarios : CallDeleteHandler(sc)
  \/ TokenReturned
  \/ TokenThrew
  \/ LookupRequestPage
  \/ LookupPageReturned
  \/ LookupFetchThrew
  \/ AfterLookup
  \/ DeleteReturned
  \/ DeleteThrew
  \/ Attempt
  \/ Exhausted
  \/ \E st \in Statuses, ra \in RetryAfterValues, body \in LookupBodyKinds :
       ReturnResponse(st, ra, body)
  \/ \E st \in Statuses, ra \in RetryAfterValues : RetryableResponse(st, ra)
  \/ FetchThrows
  \/ TimerFires

SpecWalks == Init /\ [][NextWalks]_vars

\* the page walks start without the record of their requests
InitTerm == Idle /\ history = FALSE

\* the functions are run to completion on one thread, every request is
\* answered and every timer fires, so a step that can be taken is taken
SpecTerm == InitTerm /\ [][NextWalks]_vars /\ WF_vars(NextWalks)

\* ------------------------------------------------ two invocations
\* videos is one array of the module, shared by the invocations
SwitchSharedVideos ==
  /\ cur' = 3 - cur
  /\ parked' = Locals
  /\ mode' = parked.mode
  /\ maxRetries' = parked.maxRetries
  /\ context' = parked.context
  /\ i' = parked.i
  /\ fpc' = parked.fpc
  /\ nreq' = parked.nreq
  /\ inflight' = parked.inflight
  /\ res' = parked.res
  /\ delayMs' = parked.delayMs
  /\ nwaits' = parked.nwaits
  /\ waitedMs' = parked.waitedMs
  /\ ferr' = parked.ferr
  /\ feed' = parked.feed
  /\ cutoffDate' = parked.cutoffDate
  /\ nextPageToken' = parked.nextPageToken
  /\ cpc' = parked.cpc
  /\ pageRequests' = parked.pageRequests
  /\ fetched' = parked.fetched
  /\ cerr' = parked.cerr
  /\ req' = parked.req
  /\ target' = parked.target
  /\ pageToken' = parked.pageToken
  /\ lpc' = parked.lpc
  /\ lresult' = parked.lresult
  /\ lerr' = parked.lerr
  /\ hpc' = parked.hpc
  /\ hresp' = parked.hresp
  /\ deleteCalls' = parked.deleteCalls
  /\ videos' = videos
  /\ UNCHANGED <<history, uvars, pvars>>

\* the running invocation waits at an await and the event loop resumes the
\* other invocation: each invocation has its own locals
Switch ==
  /\ cur' = 3 - cur
  /\ parked' = Locals
  /\ mode' = parked.mode
  /\ maxRetries' = parked.maxRetries
  /\ context' = parked.context
  /\ i' = parked.i
  /\ fpc' = parked.fpc
  /\ nreq' = parked.nreq
  /\ inflight' = parked.inflight
  /\ res' = parked.res
  /\ delayMs' = parked.delayMs
  /\ nwaits' = parked.nwaits
  /\ waitedMs' = parked.waitedMs
  /\ ferr' = parked.ferr
  /\ feed' = parked.feed
  /\ cutoffDate' = parked.cutoffDate
  /\ videos' = parked.videos
  /\ nextPageToken' = parked.nextPageToken
  /\ cpc' = parked.cpc
  /\ pageRequests' = parked.pageRequests
  /\ fetched' = parked.fetched
  /\ cerr' = parked.cerr
  /\ req' = parked.req
  /\ target' = parked.target
  /\ pageToken' = parked.pageToken
  /\ lpc' = parked.lpc
  /\ lresult' = parked.lresult
  /\ lerr' = parked.lerr
  /\ hpc' = parked.hpc
  /\ hresp' = parked.hresp
  /\ deleteCalls' = parked.deleteCalls
  /\ UNCHANGED <<history, uvars, pvars>>

\* the runs of getRecentVideos tried with two invocations
TwoScenarios == {sc \in Scenarios : sc.feed = FeedSmall /\ sc.hoursBack \in {2, 5}}

\* two invocations, of getRecentVideos or of fetchWithRetry, interleaved
NextTwo ==
  \/ Switch
  \/ \E sc \in TwoScenarios : CallGetRecentVideos(sc)
  \/ CallFetchWithRetry(DefaultMaxRetries, "")
  \/ RequestPage
  \/ Attempt
  \/ Exhausted
  \/ \E st \in {200, 500} : ReturnResponse(st, NoHeader, "json")
  \/ RetryableResponse(429, NoHeader)
  \/ FetchThrows
  \/ TimerFires
  \/ PageReturned
  \/ PageFetchThrew

SpecTwo == Init /\ [][NextTwo]_vars

\* ------------------------------- getRecentVideos of the Netlify function
\* entry of getRecentVideos(playlistId, apiKey, hoursBack) in summarize.mjs
NetlifyGetRecentVideos(sc) ==
  /\ mode = "none"
  /\ mode' = "netlify"
  /\ feed' = sc.feed
  /\ cutoffDate' = Num(sc.now - sc.hoursBack)
  /\ videos' = <<>>
  /\ nextPageToken' = NoToken
  /\ cpc' = "top"
  /\ UNCHANGED <<aux, pageRequests, fetched, cerr, fvars, lvars>>

\* top of the do body: build the url; const response = await fetch(url.toString())
NetlifyRequestPage ==
  /\ mode = "netlify"
  /\ cpc = "top"
  /\ history => Len(pageRequests) < MaxPages
  /\ pageRequests' = Record(pageRequests, nextPageToken)
  /\ nreq' = 1
  /\ inflight' = inflight + 1
  /\ cpc' = "await"
  /\ UNCHANGED <<mode, aux, maxRetries, context, i, fpc, res, delayMs, nwaits, waitedMs, ferr,
                 feed, cutoffDate, videos, nextPageToken, fetched, cerr, lvars>>

\* the response of the page request: the ok check, response.json(), the item
\* loop, the early stop and the loop condition
NetlifyPageResponse(st, body) ==
  /\ mode = "netlify"
  /\ cpc = "await"
  /\ inflight' = inflight - 1
  /\ res' = [status |-> st, ra |-> NoHeader, body |-> body]
  /\ IF body \in {"invalid", "empty"}
     THEN /\ cpc' = "failed"
          /\ cerr' = [kind |-> "syntax", status |-> st, message |-> <<"Unexpected token in JSON">>]
          /\ UNCHANGED <<videos, nextPageToken, fetched>>
     ELSE IF ~IsOk(st)
     THEN /\ cpc' = "failed"
          /\ cerr' = [kind |-> "http", status |-> st,
                      message |-> <<"Failed to fetch playlist items">>]
          /\ UNCHANGED <<videos, nextPageToken, fetched>>
     ELSE IF body = "other"
     THEN /\ cpc' = "failed"
          /\ cerr' = [kind |-> "type", status |-> st, message |-> <<"data.items is not iterable">>]
          /\ UNCHANGED <<videos, nextPageToken, fetched>>
     ELSE LET data == feed[nextPageToken]
              vids == videos \o Qualifying(data.items, cutoffDate)
          IN /\ videos' = vids
             /\ fetched' = Record(fetched, data)
             /\ nextPageToken' = data.nextPageToken
             /\ cpc' = IF PastCutoff(data.items, cutoffDate) THEN "done"
                       ELSE IF WhileCond(data.nextPageToken, vids) THEN "top"
                       ELSE "done"
             /\ cerr' = cerr
  /\ UNCHANGED <<mode, aux, maxRetries, context, i, fpc, nreq, delayMs, nwaits, waitedMs, ferr,
                 feed, cutoffDate, pageRequests, lvars>>

\* fetch rejects: the error leaves getRecentVideos
NetlifyFetchThrows ==
  /\ mode = "netlify"
  /\ cpc = "await"
  /\ inflight' = inflight - 1
  /\ cpc' = "failed"
  /\ cerr' = [kind |-> "transport", status |-> 0, message |-> <<"fetch failed">>]
  /\ UNCHANGED <<mode, aux, maxRetries, context, i, fpc, nreq, res, delayMs, nwaits, waitedMs,
                 ferr, feed, cutoffDate, videos, nextPageToken, pageRequests, fetched, lvars>>

NextNetlify ==
  \/ \E sc \in ListScenarios : NetlifyGetRecentVideos(sc)
  \/ NetlifyRequestPage
  \/ \E st \in Statuses, body \in LookupBodyKinds : NetlifyPageResponse(st, body)
  \/ NetlifyFetchThrows

SpecNetlify == Init /\ [][NextNetlify]_vars

\* ------------------------------------------------------------ the page
\* The page of the summarizer: the summarize button runs summarizePlaylist,
\* which lists the videos and then asks for one summary at a time, and a
\* click on the delete button of a card runs the delete handler of
\* resultsGrid.  A card is a DOM element: [el, videoId]; assigning innerHTML
\* drops the elements of the grid and creates new ones.

VideoIds == {"v1", "v2", "v3"}

\* the lists of videos a list response can carry
VideoLists ==
  { vs \in UNION { [1..n -> VideoIds] : n \in 0..MaxVideos } :
      \A a, b \in 1..Len(vs) : a # b => vs[a] # vs[b] }

\* results.map(createVideoCard).join('') assigned to innerHTML: one new
\* element per entry, in order, with an enabled delete button
\* The elements that a handler still holds keep their identity; a new
\* element is one that is neither held nor new already.
Els == 1..(MaxVideos + MaxDeletes)

Held == { d.el : d \in deletes }

RECURSIVE Fresh(_, _)
Fresh(n, used) ==
  IF n = 0 THEN <<>>
  ELSE LET e == CHOOSE x \in Els \ used : \A y \in Els \ used : x <= y
       IN <<e>> \o Fresh(n - 1, used \cup {e})

Render(rs) ==
  LET els == Fresh(Len(rs), Held)
  IN [k \in 1..Len(rs) |-> [el |-> els[k], videoId |-> rs[k].videoId]]

\* the run ends: the finally block enables the button again
EndRun ==
  /\ progressActive' = FALSE
  /\ summarizeBtnDisabled' = FALSE
  /\ upc' = "idle"
  /\ activeRuns' = activeRuns - 1

\* a click on the summarize button; a disabled button gets no click
SummarizeClick(complete) ==
  /\ ~summarizeBtnDisabled
  /\ IF ~complete
       THEN /\ modalOpen' = TRUE
            /\ UNCHANGED <<summarizeBtnDisabled, progressActive, upc, activeRuns, uiVideos, uiI, results, processRequests, processInFlight,
                           resultsGrid, removed, deletes>>
       ELSE /\ summarizeBtnDisabled' = TRUE
            /\ progressActive' = TRUE
            /\ resultsGrid' = <<>>
            /\ upc' = "listing"
            /\ activeRuns' = activeRuns + 1
            /\ uiVideos' = <<>>
            /\ uiI' = 0
            /\ results' = <<>>
            /\ processRequests' = <<>>
            /\ processInFlight' = 0
            /\ removed' = {}
            /\ deletes' = { [d EXCEPT !.stale = TRUE] : d \in deletes }
            /\ UNCHANGED modalOpen
  /\ UNCHANGED <<disabledBtns, backend>>

CloseModal ==
  /\ modalOpen
  /\ modalOpen' = FALSE
  /\ UNCHANGED <<summarizeBtnDisabled, progressActive, upc, activeRuns, uiVideos, uiI,
                 results, processRequests, processInFlight, resultsGrid, disabledBtns, deletes, removed, backend>>

\* the process request for videos[k]
RequestProcess(vs, k) ==
  /\ uiI' = k
  /\ processRequests' = Append(processRequests, vs[k])
  /\ processInFlight' = processInFlight + 1

\* the list response is OK and carries vs
ListResponse(vs) ==
  /\ upc = "listing"
  /\ IF Len(vs) = 0
       THEN /\ EndRun
            /\ UNCHANGED <<uiVideos, uiI, processRequests, processInFlight>>
       ELSE /\ uiVideos' = vs
            /\ RequestProcess(vs, 1)
            /\ upc' = "processing"
            /\ UNCHANGED <<summarizeBtnDisabled, progressActive, activeRuns>>
  /\ results' = <<>>
  /\ UNCHANGED <<modalOpen, resultsGrid, disabledBtns, deletes, removed,
                 backend>>

ListFailedStaysDisabled ==
  /\ upc = "listing"
  /\ progressActive' = FALSE
  /\ upc' = "idle"
  /\ activeRuns' = activeRuns - 1
  /\ UNCHANGED <<summarizeBtnDisabled, modalOpen, uiVideos, uiI, results,
                 processRequests, processInFlight, resultsGrid, disabledBtns,
                 deletes, removed, backend>>

\* the list response is not OK, or fetch or json() threw
ListFailed ==
  /\ upc = "listing"
  /\ EndRun
  /\ UNCHANGED <<modalOpen, uiVideos, uiI, results, processRequests, processInFlight,
                 resultsGrid, disabledBtns, deletes, removed, backend>>

\* results.push(entry), the grid is rendered again, and the loop goes on
Pushed(entry) ==
  /\ upc = "processing"
  /\ processInFlight' = processInFlight - 1 + (IF uiI < Len(uiVideos) THEN 1 ELSE 0)
  /\ results' = Append(results, entry)
  /\ resultsGrid' = Render(results')
  /\ IF uiI < Len(uiVideos)
       THEN /\ uiI' = uiI + 1
            /\ processRequests' = Append(processRequests, uiVideos[uiI + 1])
            /\ UNCHANGED <<summarizeBtnDisabled, progressActive, upc, activeRuns>>
       ELSE /\ EndRun
            /\ UNCHANGED <<uiI, processRequests>>
  /\ UNCHANGED <<modalOpen, uiVideos, disabledBtns, deletes, removed, backend>>

\* the handler's answer to action 'process': the video it was sent, with a
\* summary and status 'success', or with the error and status 'failed'
ProcessResponse(status) ==
  Pushed([videoId |-> uiVideos[uiI], status |-> status])

ProcessThrowsStops ==
  /\ upc = "processing"
  /\ processInFlight' = processInFlight - 1
  /\ EndRun
  /\ UNCHANGED <<modalOpen, uiVideos, uiI, results, processRequests, resultsGrid,
                 disabledBtns, deletes, removed, backend>>

\* fetch or json() threw: the catch block pushes the video as failed
ProcessThrows ==
  Pushed([videoId |-> uiVideos[uiI], status |-> "failed"])

UiRun == <<summarizeBtnDisabled, progressActive, modalOpen, upc, activeRuns, uiVideos,
           uiI, results, processRequests, processInFlight>>

\* a click on the enabled delete button of the k-th card: the button is
\* disabled and the delete request for the card's video id is made
DeleteClick(k) ==
  /\ k \in 1..Len(resultsGrid)
  /\ resultsGrid[k].el \notin disabledBtns
  /\ Cardinality(deletes) < MaxDeletes
  /\ disabledBtns' = disabledBtns \cup {resultsGrid[k].el}
  /\ deletes' = deletes \cup {[el |-> resultsGrid[k].el, videoId |-> resultsGrid[k].videoId,
                               stale |-> FALSE, phase |-> "inflight"]}
  /\ UNCHANGED <<UiRun, resultsGrid, removed, backend>>

\* the answer to the delete request of handler d: OK starts the 300 ms
\* timer, anything else enables the button of d's card again
DeleteResponse(d, ok) ==
  /\ d \in deletes
  /\ d.phase = "inflight"
  /\ IF ok
       THEN /\ deletes' = (deletes \ {d}) \cup {[d EXCEPT !.phase = "fading"]}
            /\ UNCHANGED disabledBtns
       ELSE /\ deletes' = deletes \ {d}
            /\ disabledBtns' = disabledBtns \ {d.el}
  /\ UNCHANGED <<UiRun, resultsGrid, removed, backend>>

\* fetch or json() threw
DeleteFetchThrew(d) ==
  /\ d \in deletes
  /\ d.phase = "inflight"
  /\ deletes' = deletes \ {d}
  /\ disabledBtns' = disabledBtns \ {d.el}
  /\ UNCHANGED <<UiRun, resultsGrid, removed, backend>>

\* the timer fires: videoCard.remove() takes d's element out of the grid
\* if it is still there
DeleteTimer(d) ==
  /\ d \in deletes
  /\ d.phase = "fading"
  /\ resultsGrid' = SelectSeq(resultsGrid, LAMBDA c : c.el # d.el)
  /\ deletes' = deletes \ {d}
  /\ removed' = IF d.stale THEN removed ELSE removed \cup {d.videoId}
  /\ UNCHANGED <<UiRun, disabledBtns, backend>>

NextUi ==
  \/ \E complete \in BOOLEAN : SummarizeClick(complete)
  \/ CloseModal
  \/ \E vs \in VideoLists : ListResponse(vs)
  \/ ListFailed
  \/ \E status \in {"success", "failed"} : ProcessResponse(status)
  \/ ProcessThrows
  \/ \E k \in 1..MaxVideos : DeleteClick(k)
  \/ \E d \in deletes, ok \in BOOLEAN : DeleteResponse(d, ok)
  \/ \E d \in deletes : DeleteFetchThrew(d)
  \/ \E d \in deletes : DeleteTimer(d)

SpecUi == Init /\ [][NextUi]_vars

\* ------------------------------------- fetchTranscript of the Netlify function
\* fetchTranscript(videoId, supadataApiKey): one request to Supadata; a 202
\* with a job id is followed by polls of the job, each after a wait.

\* a parsed body: kind "invalid" is a body json() rejects, "null" the JSON
\* null, "string" a JSON string, "object" an object with these fields
\* ("" for a field that is missing or empty)
Body(kind, jobId, job_id, content, status) ==
  [kind |-> kind, jobId |-> jobId, job_id |-> job_id, content |-> content, status |-> status]

FirstBodies ==
  { Body("object", a, b, c, "") : a \in {"", "j1"}, b \in {"", "j2"}, c \in {"", "text"} }
    \cup { Body("string", "", "", c, "") : c \in {"", "text"} }
    \cup { Body("null", "", "", "", ""), Body("invalid", "", "", "", "") }

JobBodies ==
  { Body("object", "", "", c, s) :
      c \in {"", "text"}, s \in {"", "processing", "completed", "failed"} }
    \cup { Body("string", "", "", "text", "") }
    \cup { Body("null", "", "", "", ""), Body("invalid", "", "", "", "") }

NoBody == Body("none", "", "", "", "")

TPending == [kind |-> "pending", text |-> ""]
TNull == [kind |-> "null", text |-> ""]
TText(t) == [kind |-> "text", text |-> t]
TThrew == [kind |-> "threw", text |-> ""]

\* the catch block: whatever the try block throws, null is returned
Caught(outcome) == IF outcome = TThrew THEN TNull ELSE outcome

\* reading a field of the parsed body: json() rejects an invalid body and a
\* field of null is a TypeError
Reads(body) == body.kind \notin {"invalid", "null"}

Field(body, f) == IF body.kind = "object" THEN body[f] ELSE ""

PollAgainInclusive(k) == k <= MaxPolls

\* the condition of the polling loop
PollAgain(k) == k < MaxPolls

\* the next iteration of the loop, or the timeout after it
NextPoll(k) ==
  IF PollAgain(k)
    THEN /\ tpc' = "waiting"
         /\ pollI' = k
         /\ UNCHANGED tresult
    ELSE /\ tpc' = "done"
         /\ pollI' = k
         /\ tresult' = Caught(TNull)

TReturn(outcome) ==
  /\ tpc' = "done"
  /\ tresult' = Caught(outcome)
  /\ UNCHANGED pollI

CallFetchTranscript ==
  /\ tpc = "idle"
  /\ tpc' = "first"
  /\ UNCHANGED <<pollI, polls, tWaitedMs, tJobId, lastPoll, tresult, notPoll>>

\* the answer to the transcript request
FirstResponse(status, body) ==
  /\ tpc = "first"
  /\ IF status = 202
       THEN IF ~Reads(body) THEN TReturn(TThrew) /\ UNCHANGED tJobId
            ELSE LET jobId == OrElse(Field(body, "jobId"), Field(body, "job_id"))
                 IN IF jobId = "" THEN TReturn(TNull) /\ UNCHANGED tJobId
                    ELSE tJobId' = jobId /\ NextPoll(0)
       ELSE /\ UNCHANGED tJobId
            /\ IF ~(status \in 200..299) THEN TReturn(TNull)
               ELSE IF ~Reads(body) THEN TReturn(TThrew)
               ELSE IF Field(body, "content") # "" THEN TReturn(TText(body.content))
               ELSE IF body.kind = "string" THEN TReturn(TText(body.content))
               ELSE TReturn(TNull)
  /\ UNCHANGED <<polls, tWaitedMs, lastPoll, notPoll>>

\* fetch rejects
FirstThrows ==
  /\ tpc = "first"
  /\ TReturn(TThrew)
  /\ UNCHANGED <<polls, tWaitedMs, tJobId, lastPoll, notPoll>>

\* the timer of the wait fires and the job request is made
PollTimer ==
  /\ tpc = "waiting"
  /\ tpc' = "polling"
  /\ tWaitedMs' = tWaitedMs + PollDelayMs
  /\ polls' = polls + 1
  /\ UNCHANGED <<pollI, tJobId, lastPoll, tresult, notPoll>>

\* the answer to the job request
PollResponse(status, body) ==
  /\ tpc = "polling"
  /\ lastPoll' = [status |-> status, body |-> body]
  /\ IF ~(status \in 200..299) THEN NextPoll(pollI + 1)
     ELSE IF ~Reads(body) THEN TReturn(TThrew)
     ELSE IF Field(body, "status") = "completed" \/ Field(body, "content") # ""
       THEN TReturn(IF Field(body, "content") # "" THEN TText(body.content) ELSE TNull)
     ELSE IF Field(body, "status") = "failed" THEN TReturn(TNull)
     ELSE NextPoll(pollI + 1)
  /\ UNCHANGED <<polls, tWaitedMs, tJobId, notPoll>>

PollThrows ==
  /\ tpc = "polling"
  /\ lastPoll' = [status |-> 0, body |-> NoBody]
  /\ TReturn(TThrew)
  /\ UNCHANGED <<polls, tWaitedMs, tJobId, notPoll>>

NextPollSpec ==
  \/ CallFetchTranscript
  \/ \E status \in {200, 202, 404}, body \in FirstBodies : FirstResponse(status, body)
  \/ FirstThrows
  \/ PollTimer
  \/ \E status \in {200, 503}, body \in JobBodies : PollResponse(status, body)
  \/ PollThrows

SpecPoll == Init /\ [][NextPollSpec]_vars

\* ---------------------------------------------------------------- claims
Contains(seq, x) == \E k \in 1..Len(seq) : seq[k] = x

\* min(2^idx, 5) seconds as the specification lists it: 1, 2, 4, 5, 5, ...
ExpSeconds(idx) == IF idx = 0 THEN 1 ELSE IF idx = 1 THEN 2 ELSE IF idx = 2 THEN 4 ELSE 5

MinOf(a, b) == IF a <= b THEN a ELSE b

\* C1: fetchWithRetry returns the response of the first attempt whose status
\* is not 408, 429 or 503: a response with such a status is returned by the
\* step that receives it, no timer is started or awaited for it (the timers
\* awaited are those of the i earlier attempts) and no request follows it.
C1_ReturnsFirstNonRetryable ==
  /\ [](fpc = "returned" =>
          /\ res.status \notin {408, 429, 503}
          /\ nreq = i + 1
          /\ nwaits = i)
  /\ [][(fpc = "fetching" /\ fpc' \in {"returned", "sleeping"}
           /\ res'.status \notin {408, 429, 503})
        => (fpc' = "returned" /\ nwaits' = nwaits /\ waitedMs' = waitedMs)]_vars
  /\ [][fpc = "returned" => (nreq' = nreq /\ fpc' \notin {"fetching", "sleeping"})]_vars

C1_Witness ==
  /\ fpc = "returned"
  /\ res.status = 404
  /\ i = 2
  /\ nreq = 3
  /\ nwaits = 2

\* C2: while the responses are retryable another attempt is issued until
\* maxRetries attempts have been made, and then the call fails with the
\* exhaustion error; the number of requests never exceeds maxRetries and the
\* index of an attempt is in 0..maxRetries-1.
C2_RetriesUntilExhausted ==
  /\ [](nreq <= maxRetries)
  /\ [](fpc \in {"fetching", "sleeping", "returned"} => (i >= 0 /\ i <= maxRetries - 1))
  /\ [](fpc = "sleeping" => res.status \in {408, 429, 503})
  /\ []((fpc = "threw" /\ ferr.kind = "exhausted") => nreq = maxRetries)
  /\ [][fpc = "sleeping" => (fpc' = "loop" /\ i' = i + 1)]_vars
  /\ [][fpc = "loop" =>
          IF nreq < maxRetries
          THEN fpc' = "fetching" /\ nreq' = nreq + 1
          ELSE fpc' = "threw" /\ ferr'.kind = "exhausted"]_vars

C2_Witness ==
  /\ fpc = "threw"
  /\ ferr.kind = "exhausted"
  /\ maxRetries = 3
  /\ nreq = 3
  /\ res.status \in {408, 429, 503}

\* C3: exhaustion is a failure, never a passthrough: no response with status
\* 408, 429 or 503 is ever returned, and once maxRetries attempts have all got
\* a retryable status the call throws an error whose message contains
\* 'Max retries exceeded' and the label when one was given.
C3_ExhaustionIsAFailure ==
  /\ [](fpc = "returned" => res.status \notin {408, 429, 503})
  /\ [][(fpc = "loop" /\ nreq >= maxRetries)
        => /\ fpc' = "threw"
           /\ Contains(ferr'.message, "Max retries exceeded")
           /\ (context # "" => Contains(ferr'.message, context))]_vars

C3_Witness ==
  /\ fpc = "threw"
  /\ nreq = maxRetries
  /\ maxRetries = 2
  /\ res.status = 503
  /\ context = "YouTube/playlistItems"
  /\ ferr.message = <<"YouTube/playlistItems", ": ", "Max retries exceeded">>

\* the first n items of Feed120
FirstItems(n) == [k \in 1..n |-> Item(k, 121 - k)]

\* every page processed so far was the page the feed holds for the token asked
AllServed ==
  /\ Len(fetched) <= Len(pageRequests)
  /\ \A k \in 1..Len(fetched) : fetched[k] = feed[pageRequests[k]]

\* the run of the 120 item feed whose cutoff lets exactly the first 55 items pass
Run120 == mode = "list" /\ feed = Feed120 /\ cutoffDate = Num(66) /\ AllServed

\* C4 as stated: on the 120 item feed with 55 items at or after the cutoff,
\* getRecentVideos returns exactly the first 55 items, requests page 2 and
\* never page 3.
C4_Returns55 ==
  Run120 =>
    /\ ~Contains(pageRequests, "P3")
    /\ (cpc = "done" => (videos = FirstItems(55) /\ Contains(pageRequests, "P2")))

\* C4 amended: on that feed getRecentVideos returns exactly the first 50 items:
\* the cap of 50 items is reached on page 1, and neither page 2 nor page 3 is
\* ever requested.
C4_Returns50 ==
  Run120 =>
    /\ pageRequests \in {<<>>, <<NoToken>>}
    /\ (cpc = "done" => (videos = FirstItems(50) /\ pageRequests = <<NoToken>>))

C4_Witness ==
  /\ Run120
  /\ cpc = "done"
  /\ Len(videos) = 50
  /\ nextPageToken = "P2"
  /\ Len(Qualifying(Feed120[NoToken].items \o Feed120["P2"].items \o Feed120["P3"].items,
                    cutoffDate)) = 55

\* C5 as stated: when the Retry-After header of a retryable response is absent
\* or is not a number, the delay before the next attempt is min(2^i, 5)
\* seconds.
C5_NonNumericFallsBack ==
  (fpc = "sleeping" /\ (~res.ra.present \/ NumberOf(res.ra.text).nan))
    => (delayMs = Num(1000 * ExpSeconds(i)) /\ TimerMs(delayMs) = 1000 * ExpSeconds(i))

\* C6 as stated: with maxRetries = 1 a retryable first response is followed by
\* the exhaustion error at once: one attempt, no timer awaited.
C6_OneAttemptNoDelay ==
  (mode = "fetch" /\ maxRetries = 1)
    => /\ fpc # "sleeping"
       /\ ((fpc = "threw" /\ ferr.kind = "exhausted")
             => (nreq = 1 /\ nwaits = 0 /\ waitedMs = 0))

\* C7 as stated: with maxRetries = 0 one HTTP attempt is still made (and its
\* non-retryable response returned): the call never ends without a request.
C7_ZeroStillAttempts ==
  (mode = "fetch" /\ maxRetries = 0 /\ fpc \in {"returned", "threw"}) => nreq = 1

\* C8: a retryable response with a numeric Retry-After of n seconds makes the
\* delay min(n, 5) seconds whatever the attempt index: that is the value of
\* delayMs, and the time the timer adds to the wait (a timer of 0 ms runs for
\* the 1 ms minimum of the runtime).
C8_RetryAfterHonoured ==
  /\ [](\A n \in RetryAfterSecs :
          (fpc = "sleeping" /\ res.ra = Hdr(Decimal(n)))
            => delayMs = Num(1000 * MinOf(n, 5)))
  /\ [][\A n \in RetryAfterSecs :
          (fpc = "sleeping" /\ res.ra = Hdr(Decimal(n)) /\ fpc' = "loop")
            => waitedMs' - waitedMs = (IF n = 0 THEN 1 ELSE 1000 * MinOf(n, 5))]_vars

C8_Witness ==
  /\ fpc = "sleeping"
  /\ i = 2
  /\ res.ra = Hdr(<<"1", "0">>)
  /\ delayMs = Num(5000)

\* C9: with no Retry-After header the delay after the attempt with index i is
\* min(2^i, 5) seconds: 1, 2, 4, 5, 5, ...
C9_ExponentialBackoff ==
  /\ []((fpc = "sleeping" /\ ~res.ra.present) => delayMs = Num(1000 * ExpSeconds(i)))
  /\ [][(fpc = "sleeping" /\ ~res.ra.present /\ fpc' = "loop")
        => waitedMs' - waitedMs = 1000 * ExpSeconds(i)]_vars

C9_Witness ==
  /\ fpc = "loop"
  /\ i = 5
  /\ waitedMs = 1000 + 2000 + 4000 + 5000 + 5000
  /\ ~res.ra.present

\* C10: every delay waited is between 0 and 5 seconds whatever its source, and
\* the time waited in one call is at most 5 x maxRetries seconds.
C10_DelayBounded ==
  /\ [][(fpc = "sleeping" /\ fpc' = "loop")
        => (waitedMs' - waitedMs >= 0 /\ waitedMs' - waitedMs <= 5000)]_vars
  /\ [](waitedMs >= 0 /\ waitedMs <= 5000 * maxRetries)

C10_Witness ==
  /\ fpc = "threw"
  /\ maxRetries = 3
  /\ waitedMs = 15000
  /\ res.ra = Hdr(<<"1", "0">>)

\* C11: every item of the accumulated result has a parsable publishedAt at or
\* after the cutoff, in every state of a run.
C11_AllAtOrAfterCutoff ==
  mode = "list" =>
    \A k \in 1..Len(videos) :
      /\ videos[k].publishedAt.valid
      /\ videos[k].publishedAt.t >= cutoffDate.v

C11_Witness ==
  /\ mode = "list"
  /\ feed = FeedUnsorted
  /\ cpc = "done"
  /\ Len(fetched) = 3
  /\ \E k \in 1..Len(fetched[2].items) : ~fetched[2].items[k].publishedAt.valid
  /\ Len(videos) = 3

\* what a run of getRecentVideos hands to its caller: the videos once it has
\* returned, nothing before and nothing when it threw
ReturnedItems == IF cpc = "done" THEN videos ELSE <<>>

\* C12: a page request that fails (fetchWithRetry throws on exhaustion or on a
\* transport error, or the response is not 2xx) makes the run fail with an
\* error; a failed run stays failed and hands no item to its caller.
C12_FailureDiscardsItems ==
  /\ [][(cpc = "await" /\ fpc = "threw") => (cpc' = "failed" /\ cerr' # NoErr)]_vars
  /\ [][(cpc = "await" /\ fpc = "returned" /\ (res.status < 200 \/ res.status > 299))
        => (cpc' = "failed" /\ cerr' # NoErr)]_vars
  /\ [][cpc = "failed" => cpc' = "failed"]_vars
  /\ [](cpc = "failed" => (cerr # NoErr /\ ReturnedItems = <<>>))

C12_Witness ==
  /\ mode = "list"
  /\ cpc = "failed"
  /\ cerr.kind = "exhausted"
  /\ Len(pageRequests) = 2
  /\ Len(videos) = 2

\* C13 as stated: a page response whose body is not parseable JSON, an empty
\* body included, makes the run fail with the 'Invalid JSON response' error
\* that carries the HTTP status; the run never completes on such a page.
C13_UnparseableBodyFails ==
  [][(cpc = "await" /\ fpc = "returned" /\ res.body \in {"invalid", "empty"})
     => /\ cpc' = "failed"
        /\ cerr'.kind = "invalidjson"
        /\ cerr'.status = res.status]_vars

\* the last item of the page processed last is strictly older than the cutoff
LastItemOlder(pages) ==
  /\ Len(pages) > 0
  /\ LET its == pages[Len(pages)].items
     IN /\ Len(its) > 0
        /\ its[Len(its)].publishedAt.valid
        /\ its[Len(its)].publishedAt.t < cutoffDate.v

\* C14: once the last item of a fetched page is strictly older than the cutoff
\* the run returns and requests no further page, whatever the cursor and the
\* number of items collected.
C14_EarlyTermination ==
  /\ [][(cpc = "await" /\ fetched' # fetched /\ LastItemOlder(fetched')) => cpc' = "done"]_vars
  /\ [][cpc = "done" => (cpc' = "done" /\ pageRequests' = pageRequests)]_vars

C14_Witness ==
  /\ mode = "list"
  /\ cpc = "done"
  /\ LastItemOlder(fetched)
  /\ nextPageToken = "P3"
  /\ Len(videos) = 3
  /\ Len(pageRequests) = 2

\* C15: once the result holds 50 items or more no further page is requested,
\* even with a next cursor and a last item that is not older than the cutoff.
C15_CapStopsPaging ==
  /\ []((mode = "list" /\ cpc \in {"top", "await"}) => Len(videos) < 50)
  /\ [][(cpc = "await" /\ Len(videos') >= 50) => cpc' \in {"done", "failed"}]_vars

C15_Witness ==
  /\ mode = "list"
  /\ cpc = "done"
  /\ Len(videos) >= 50
  /\ nextPageToken # NoToken
  /\ ~LastItemOlder(fetched)

\* C16 as stated: the sequence returned by getRecentVideos holds at most 50
\* items, for every feed.
C16_AtMost50Returned ==
  (mode = "list" /\ cpc = "done") => Len(videos) <= 50

\* the page holds an item whose videoId is the one looked for
HasTarget(page) == \E k \in 1..Len(page.items) : page.items[k].videoId = target

\* C17: findPlaylistItemId returns null only after a page response without a
\* next cursor: each page of the cursor chain was requested in turn, none of
\* them held the video, and the last one named no next page.
C17_NullOnlyAfterLastPage ==
  (mode = "delete" /\ lpc = "done" /\ lresult = NoId) =>
    /\ Len(fetched) >= 1
    /\ Len(pageRequests) = Len(fetched)
    /\ pageRequests[1] = NoToken
    /\ \A k \in 1..(Len(fetched) - 1) :
         /\ fetched[k].nextPageToken # NoToken
         /\ pageRequests[k + 1] = fetched[k].nextPageToken
    /\ fetched[Len(fetched)].nextPageToken = NoToken
    /\ \A k \in 1..Len(fetched) : ~HasTarget(fetched[k])

C17_Witness ==
  /\ mode = "delete"
  /\ lpc = "done"
  /\ lresult = NoId
  /\ feed = LookupFeed
  /\ target = "v9"
  /\ pageRequests = <<NoToken, "P2", "P3">>
  /\ AllServed

\* C18: findPlaylistItemId returns as soon as a page holds an item with the
\* videoId looked for: the value returned is the id of the first such item in
\* feed order, and no page is requested after the page that holds it.
C18_ReturnsFirstMatch ==
  /\ []((mode = "delete" /\ lpc = "done" /\ lresult # NoId) =>
          /\ Len(fetched) >= 1
          /\ Len(pageRequests) = Len(fetched)
          /\ \A p \in 1..(Len(fetched) - 1) : ~HasTarget(fetched[p])
          /\ LET its == fetched[Len(fetched)].items
             IN \E k \in 1..Len(its) :
                  /\ its[k].videoId = target
                  /\ its[k].id = lresult
                  /\ \A j \in 1..(k - 1) : its[j].videoId # target)
  /\ [][(lpc = "await" /\ fetched' # fetched /\ HasTarget(fetched'[Len(fetched')]))
        => (lpc' = "done" /\ lresult' # NoId)]_vars
  /\ [][lpc = "done" => (lpc' = "done" /\ pageRequests' = pageRequests)]_vars

C18_Witness ==
  /\ mode = "delete"
  /\ hpc = "responded"
  /\ lpc = "done"
  /\ target = "v2"
  /\ lresult = "a2"
  /\ pageRequests = <<NoToken>>
  /\ fetched[1].nextPageToken = "P2"

\* C19: not-found is a normal result: a lookup that returned raised no error,
\* and after a null result the handler answers 404 'Video not found in
\* playlist' without any call of the delete; a page request that fails makes
\* the lookup raise an error, which the handler never answers as not-found
\* and after which nothing is deleted.
C19_NotFoundIsNotAnError ==
  /\ [](lpc = "done" => lerr = NoErr)
  /\ []((hpc = "responded" /\ lpc = "done" /\ lresult = NoId) =>
          /\ hresp.status = 404
          /\ hresp.error = "Video not found in playlist"
          /\ deleteCalls = <<>>)
  /\ [](lpc = "failed" =>
          /\ lerr # NoErr
          /\ deleteCalls = <<>>
          /\ hpc # "delete"
          /\ (hpc = "responded" =>
                (hresp.error # "Video not found in playlist" /\ ~hresp.success)))
  /\ [][(lpc = "await" /\ fpc = "threw") => lpc' = "failed"]_vars
  /\ [][(lpc = "await" /\ fpc = "returned" /\ (res.status < 200 \/ res.status > 299))
        => lpc' = "failed"]_vars

C19_Witness ==
  /\ hpc = "responded"
  /\ lpc = "done"
  /\ lresult = NoId
  /\ hresp.status = 404
  /\ Len(pageRequests) = 3
  /\ deleteCalls = <<>>

\* C20 as stated: within one run no page token is used for more than one page
\* request, whatever cursors the feed returns.
C20_NoTokenRevisited ==
  \A a \in 1..Len(pageRequests) : \A b \in 1..Len(pageRequests) :
    a # b => pageRequests[a] # pageRequests[b]

\* C21: in getRecentVideos and in findPlaylistItemId the first page request
\* carries no page token, every later page request carries exactly the
\* nextPageToken of the page response just before it, and after a page
\* response without a nextPageToken no further page is requested
C21_TokenChain ==
  /\ Len(fetched) <= Len(pageRequests)
  /\ Len(pageRequests) >= 1 => pageRequests[1] = NoToken
  /\ \A k \in 2..Len(pageRequests) :
       /\ k - 1 <= Len(fetched)
       /\ fetched[k - 1].nextPageToken # NoToken
       /\ pageRequests[k] = fetched[k - 1].nextPageToken

\* the lookup walked three pages and the last one had no nextPageToken
C21_Witness ==
  /\ mode = "delete"
  /\ lpc = "done"
  /\ pageRequests = <<NoToken, "P2", "P3">>
  /\ Len(fetched) = 3
  /\ fetched[3].nextPageToken = NoToken

\* C22: every page request of the list-videos collection and of the delete
\* lookup goes through fetchWithRetry: a page response with status 408, 429 or
\* 503 that is not the third one for its page does not fail the operation
C22_RetryablePageResponseRetried ==
  [][(inflight' = inflight - 1 /\ res'.status \in retryable
        /\ nreq < DefaultMaxRetries)
     => (cpc' # "failed" /\ lpc' # "failed")]_vars

\* the items of the given pages, page after page
RECURSIVE ItemsOf(_)
ItemsOf(pages) == IF pages = <<>> THEN <<>> ELSE Head(pages).items \o ItemsOf(Tail(pages))

\* the items published at or after the cutoff, in the order given
AtOrAfterCutoff(items) ==
  SelectSeq(items, LAMBDA it : it.publishedAt.valid /\ it.publishedAt.t >= cutoffDate.v)

\* C23: the items gathered by getRecentVideos, and so its result, are in order
\* exactly the items with publishedAt >= cutoff of the concatenation of the
\* pages it fetched: none dropped, none doubled, none reordered
C23_ResultIsFilteredConcatenation ==
  mode = "list" => videos = AtOrAfterCutoff(ItemsOf(fetched))

\* two pages fetched, four items seen, the three at or after the cutoff returned
C23_Witness ==
  /\ mode = "list"
  /\ cpc = "done"
  /\ feed = FeedSmall
  /\ cutoffDate = Num(8)
  /\ Len(ItemsOf(fetched)) = 4
  /\ videos = <<Item(1, 10), Item(2, 9), Item(3, 8)>>

\* C24: after a page response that carries a next cursor, while fewer than 50
\* items are gathered and the last item of the page is not older than the
\* cutoff (or the page is empty), getRecentVideos goes on and its next step
\* requests the next page with that cursor; it stops only when the page has
\* no cursor, the cap is reached, the early stop applies or the run fails
C24_ContinuesWhileCursor ==
  /\ [][(mode = "list" /\ cpc = "await" /\ Len(fetched') = Len(fetched) + 1
          /\ fetched'[Len(fetched')].nextPageToken # NoToken
          /\ Len(videos') < 50
          /\ ~LastItemOlder(fetched'))
        => (cpc' = "top" /\ nextPageToken' = fetched'[Len(fetched')].nextPageToken)]_vars
  /\ [][(mode = "list" /\ cpc = "top" /\ Len(fetched) >= 1)
        => (cpc' = "await" /\ pageRequests' = Append(pageRequests, fetched[Len(fetched)].nextPageToken))]_vars
  /\ []((mode = "list" /\ cpc = "done")
        => /\ Len(fetched) >= 1
           /\ \/ fetched[Len(fetched)].nextPageToken = NoToken
              \/ Len(videos) >= 50
              \/ LastItemOlder(fetched))
  /\ []((mode = "list" /\ cpc = "failed") => cerr # NoErr)

\* page 2 requested with the cursor of page 1
C24_Witness ==
  /\ mode = "list"
  /\ feed = FeedSmall
  /\ cpc = "await"
  /\ Len(fetched) = 1
  /\ Len(videos) = 2
  /\ pageRequests = <<NoToken, "P2">>

\* C25: every run of getRecentVideos and every run of findPlaylistItemId
\* eventually ends, returning or throwing, whatever page responses arrive
C25_WalksTerminate ==
  /\ (cpc = "top") ~> (cpc \in {"done", "failed"})
  /\ (lpc = "top") ~> (lpc \in {"done", "failed"})

\* C26: within one call at most one HTTP request is outstanding at any time; a
\* page is requested only after the response of the page before it has been
\* processed, and an attempt is issued only after the timers of all earlier
\* attempts of the call have fired
C26_OneRequestAtATime ==
  /\ [](inflight \in {0, 1})
  /\ [][nreq' = nreq + 1
        => (inflight = 0 /\ fpc # "sleeping" /\ nwaits = nreq)]_vars
  /\ [][Len(pageRequests') > Len(pageRequests)
        => (inflight = 0 /\ fpc = "idle" /\ Len(fetched) = Len(pageRequests))]_vars

\* the second attempt for the second page is outstanding, after one timer
C26_Witness ==
  /\ mode = "list"
  /\ Len(pageRequests) = 2
  /\ Len(fetched) = 1
  /\ inflight = 1
  /\ nreq = 2
  /\ nwaits = 1

\* the items published at or after the given cutoff, in the order given
AtOrAfter(items, cutoff) ==
  SelectSeq(items, LAMBDA it : it.publishedAt.valid /\ it.publishedAt.t >= cutoff.v)

\* what holds of the locals of an invocation that runs alone: the attempt
\* counter follows its own timers and requests, the page requests follow its
\* own page responses, the items gathered are those of its own pages
AsAlone(l) ==
  /\ l.nwaits = l.i
  /\ l.nreq \in {l.i, l.i + 1}
  /\ l.inflight \in {0, 1}
  /\ l.mode = "list" =>
       /\ l.videos = AtOrAfter(ItemsOf(l.fetched), l.cutoffDate)
       /\ Len(l.pageRequests) >= 1 => l.pageRequests[1] = NoToken
       /\ \A k \in 2..Len(l.pageRequests) :
            /\ k - 1 <= Len(l.fetched)
            /\ l.pageRequests[k] = l.fetched[k - 1].nextPageToken
       /\ \A k \in 1..Len(l.fetched) : l.fetched[k] = l.feed[l.pageRequests[k]]

\* C27: two invocations interleaved in any order do not touch each other: a
\* step of the running invocation leaves the locals of the waiting one as
\* they are, an invocation is resumed with the locals it was left with, the
\* counters, requests and items of each are those of a run alone on its own
\* responses, and every run of getRecentVideos starts with no items and no
\* page token
C27_InvocationsIndependent ==
  /\ [][cur' = cur => parked' = parked]_vars
  /\ [][cur' # cur => (parked' = Locals /\ Locals' = parked)]_vars
  /\ [](AsAlone(Locals) /\ AsAlone(parked))
  /\ [][(cur' = cur /\ mode = "none" /\ mode' = "list")
        => (videos' = <<>> /\ nextPageToken' = NoToken /\ pageRequests' = <<>>)]_vars

\* two interleaved runs of getRecentVideos have ended, each with the items of
\* its own cutoff, one of them after a retry
C27_Witness ==
  /\ cur = 2
  /\ mode = "list" /\ cpc = "done" /\ cutoffDate = Num(5) /\ Len(videos) = 5
  /\ parked.mode = "list" /\ parked.cpc = "done" /\ parked.cutoffDate = Num(8)
  /\ Len(parked.videos) = 3
  /\ parked.nwaits = 1

\* C28: with a feed that is not sorted newest first getRecentVideos can end
\* normally and leave out items at or after the cutoff: for the unsorted feed
\* and a cutoff of 8, with every page served, the run stops after page 1
\* (whose last item is older), returns only the first item and raises no error
C28_SilentOmission ==
  (mode = "list" /\ feed = FeedUnsorted /\ cutoffDate = Num(8) /\ AllServed /\ cpc = "done")
    => /\ videos = <<Item(1, 10)>>
       /\ pageRequests = <<NoToken>>
       /\ cerr = NoErr

\* the run has ended normally without the item of page 2 that passes the cutoff
C28_Witness ==
  /\ mode = "list" /\ feed = FeedUnsorted /\ cutoffDate = Num(8) /\ AllServed
  /\ cpc = "done"
  /\ cerr = NoErr
  /\ Contains(AtOrAfterCutoff(feed["P2"].items), Item(4, 9))
  /\ ~Contains(videos, Item(4, 9))

\* the items of the feed in the order of its pages, at most n pages from tok
RECURSIVE FeedItems(_, _)
FeedItems(tok, n) ==
  IF n = 0 THEN <<>>
  ELSE feed[tok].items
         \o (IF feed[tok].nextPageToken = NoToken THEN <<>>
             ELSE FeedItems(feed[tok].nextPageToken, n - 1))

AllFeedItems == FeedItems(NoToken, Cardinality(DOMAIN feed))

\* every publishedAt parses and no item is newer than the one before it
SortedNewestFirst(items) ==
  /\ \A k \in 1..Len(items) : items[k].publishedAt.valid
  /\ \A k \in 1..(Len(items) - 1) : items[k].publishedAt.t >= items[k + 1].publishedAt.t

IsPrefix(a, b) == Len(a) <= Len(b) /\ \A k \in 1..Len(a) : a[k] = b[k]

\* C29: for a feed sorted newest first, a run of getRecentVideos that ends
\* normally returns a prefix of the feed's items at or after the cutoff, and
\* all of them when fewer than 50 items of the feed pass the cutoff
C29_SortedFeedPrefix ==
  (mode = "list" /\ cpc = "done" /\ SortedNewestFirst(AllFeedItems))
    => LET all == AtOrAfterCutoff(AllFeedItems)
       IN /\ IsPrefix(videos, all)
          /\ Len(all) < 50 => videos = all

\* C30: an error thrown by fetch inside fetchWithRetry is not retried: it
\* leaves fetchWithRetry on the attempt where it occurs, no delay is waited
\* for it and the call issues no further request
C30_TransportErrorNotRetried ==
  /\ [][(fpc = "fetching" /\ ferr'.kind = "transport")
        => (fpc' = "threw" /\ nreq' = nreq /\ nwaits' = nwaits /\ waitedMs' = waitedMs
            /\ i' = i)]_vars
  /\ [][(fpc = "threw" /\ ferr.kind = "transport")
        => (fpc' \notin {"fetching", "sleeping"} /\ nreq' <= nreq /\ nwaits' <= nwaits)]_vars
  /\ []((fpc = "threw" /\ ferr.kind = "transport") => (nreq = i + 1 /\ nwaits = i))

\* fetch threw on the second attempt of a direct call: two requests, one timer
C30_Witness ==
  /\ mode = "fetch"
  /\ fpc = "threw"
  /\ ferr.kind = "transport"
  /\ i = 1
  /\ nreq = 2
  /\ nwaits = 1

\* the failure a step of the handler meets: the status code of a response
\* that is not ok, 0 for an error without a status code, -1 for no failure
FailureStatus ==
  IF fpc = "threw" THEN 0
  ELSE IF fpc = "returned" /\ ~(res.status \in 200..299) THEN res.status
  ELSE IF fpc = "returned" /\ hpc \in {"token", "lookup"} /\ res.body \in {"invalid", "empty"} THEN 0
  ELSE IF fpc = "returned" /\ hpc = "token" /\ res.body = "other" THEN 500
  ELSE -1

\* C31: the delete handler works in the order token exchange, lookup, delete.
\* The lookup starts only after an ok token response; the DELETE request is
\* made only after the lookup returned an id, once, and for that id; success
\* with 200 is answered only when the DELETE got a 2xx response; a failure of
\* the token exchange, the lookup or the delete is answered with its status
\* code, 500 when it has none, and never with success
C31_TokenLookupDelete ==
  /\ [][(lpc = "idle" /\ lpc' # "idle")
        => (hpc = "token" /\ fpc = "returned" /\ res.status \in 200..299
            /\ deleteCalls = <<>>)]_vars
  /\ [][deleteCalls' # deleteCalls
        => (hpc = "lookup" /\ lpc = "done" /\ lresult # NoId /\ deleteCalls = <<>>
            /\ deleteCalls' = <<lresult>>)]_vars
  /\ [][(hresp' # hresp /\ hresp'.success)
        => (hpc = "delete" /\ fpc = "returned" /\ res.status \in 200..299
            /\ hresp'.status = 200 /\ deleteCalls = <<hresp'.playlistItemId>>)]_vars
  /\ [][(mode = "delete" /\ FailureStatus >= 0)
        => (hresp'.success = FALSE
            /\ deleteCalls' = deleteCalls
            /\ (hpc # "lookup" => (hpc' = "responded" /\ hresp'.status =
                   (IF FailureStatus = 0 THEN 500 ELSE FailureStatus)))
            /\ (hpc = "lookup" => (lpc' = "failed" /\ lerr'.status = FailureStatus)))]_vars
  /\ [][(hpc = "lookup" /\ lpc = "failed")
        => (hpc' = "responded" /\ hresp'.success = FALSE /\ deleteCalls' = deleteCalls
            /\ hresp'.status = (IF lerr.status = 0 THEN 500 ELSE lerr.status))]_vars
  /\ [](hresp.success => hresp.status = 200)

\* the video was found on page 2 and its playlist item deleted
C31_Witness ==
  /\ mode = "delete"
  /\ hpc = "responded"
  /\ hresp.success
  /\ hresp.status = 200
  /\ hresp.playlistItemId = "a4"
  /\ deleteCalls = <<"a4">>

\* the handler answered with the given status and error and made no request to
\* the token, playlistItems or delete endpoint
Rejected(code, message) ==
  /\ hpc = "responded"
  /\ hresp.status = code
  /\ hresp.error = message
  /\ hresp.success = FALSE
  /\ fpc = "idle" /\ nreq = 0 /\ inflight = 0
  /\ pageRequests = <<>> /\ deleteCalls = <<>>

NoVideoId == req.videoId = "" /\ req.video_id = ""

NoPlaylistId == req.playlistId = "" /\ req.playlist_id = ""

NoEnv == ~req.clientId \/ ~req.clientSecret \/ ~req.refreshToken

\* C32 as stated: every method other than POST gives 405, then a missing
\* videoId 400, a missing playlistId 400, missing OAuth environment variables
\* 500, in that order and without any outbound call
C32_RejectsInvalid ==
  mode = "delete" =>
    /\ req.method # "POST" => Rejected(405, "Method not allowed")
    /\ (req.method = "POST" /\ NoVideoId) => Rejected(400, "Missing videoId")
    /\ (req.method = "POST" /\ ~NoVideoId /\ NoPlaylistId) => Rejected(400, "Missing playlistId")
    /\ (req.method = "POST" /\ ~NoVideoId /\ ~NoPlaylistId /\ NoEnv)
         => Rejected(500, "Server missing YouTube OAuth env vars")

\* C32 amended: an OPTIONS request is answered 204, every other method than
\* POST 405, then a missing videoId 400, a missing playlistId 400, missing
\* OAuth environment variables 500, in that order and without any outbound
\* call; a request that passes the checks starts the token exchange
C32_RejectsInvalidButOptions ==
  mode = "delete" =>
    /\ req.method = "OPTIONS" => Rejected(204, "")
    /\ req.method \notin {"POST", "OPTIONS"} => Rejected(405, "Method not allowed")
    /\ (req.method = "POST" /\ NoVideoId) => Rejected(400, "Missing videoId")
    /\ (req.method = "POST" /\ ~NoVideoId /\ NoPlaylistId) => Rejected(400, "Missing playlistId")
    /\ (req.method = "POST" /\ ~NoVideoId /\ ~NoPlaylistId /\ NoEnv)
         => Rejected(500, "Server missing YouTube OAuth env vars")
    /\ (req.method = "POST" /\ ~NoVideoId /\ ~NoPlaylistId /\ ~NoEnv)
         => (hpc # "idle" /\ target = (IF req.videoId # "" THEN req.videoId ELSE req.video_id))

\* a POST without videoId and without playlistId was answered for the videoId
C32_Witness ==
  /\ mode = "delete"
  /\ req.method = "POST"
  /\ NoVideoId /\ NoPlaylistId /\ NoEnv
  /\ Rejected(400, "Missing videoId")

\* ---------------------------------------------------------------- the page

InFlightFor(v) == { d \in deletes : d.phase = "inflight" /\ ~d.stale /\ d.videoId = v }

\* C33: while a delete request started from a video's card is in flight, no
\* second delete request for the same video id is started, also while a
\* summarize run renders the grid again.
C33_OneDeletePerVideo ==
  \A v \in VideoIds : Cardinality(InFlightFor(v)) <= 1

CardsOf(v) == { k \in 1..Len(resultsGrid) : resultsGrid[k].videoId = v }

\* C34: once the card of a video whose delete succeeded was removed, the grid
\* shows no card of that video for the rest of the run, also while the run
\* goes on with later videos.
C34_CardStaysRemoved ==
  \A v \in removed : CardsOf(v) = {}

\* C35: the summarize button is disabled exactly while a run of
\* summarizePlaylist is active, at most one run is active, a run that ended
\* (all processed, no videos, list failed) leaves the button enabled and the
\* progress section not active, and a click with incomplete settings starts
\* no run.
C35_ButtonGuardsRun ==
  /\ activeRuns \in {0, 1}
  /\ summarizeBtnDisabled <=> activeRuns = 1
  /\ upc # "idle" <=> activeRuns = 1
  /\ progressActive <=> activeRuns = 1

C35_Witness ==
  /\ upc = "idle"
  /\ activeRuns = 0
  /\ ~summarizeBtnDisabled
  /\ ~progressActive
  /\ Len(uiVideos) = MaxVideos
  /\ Len(results) = MaxVideos
  /\ modalOpen

ResultStatuses == {"success", "failed"}

\* C36: the process requests of a run are made one at a time and in the
\* order of the list, every video of the list is asked for whatever the
\* outcome of the earlier ones, and when the run ends results has one entry
\* per listed video, the i-th for the i-th video, each with status 'success'
\* or 'failed'.
C36_OneEntryPerVideo ==
  /\ processInFlight \in {0, 1}
  /\ \A k \in 1..Len(results) :
       /\ k <= Len(uiVideos)
       /\ results[k].videoId = uiVideos[k]
       /\ results[k].status \in ResultStatuses
  /\ upc = "processing" =>
       /\ processInFlight = 1
       /\ uiI \in 1..Len(uiVideos)
       /\ processRequests = SubSeq(uiVideos, 1, uiI)
       /\ Len(results) = uiI - 1
  /\ upc = "idle" =>
       /\ processInFlight = 0
       /\ processRequests = uiVideos
       /\ Len(results) = Len(uiVideos)

C36_Witness ==
  /\ upc = "idle"
  /\ uiVideos = <<"v2", "v1">>
  /\ processRequests = <<"v2", "v1">>
  /\ results = <<[videoId |-> "v2", status |-> "failed"],
                 [videoId |-> "v1", status |-> "success"]>>

\* ------------------------------------------------------------ fetchTranscript

\* an OK answer to a job request that reports completion, content or failure
Terminal(r) ==
  /\ r.status \in 200..299
  /\ r.body.kind = "object"
  /\ r.body.status \in {"completed", "failed"} \/ r.body.content # ""

\* C37: after a 202 with a job id fetchTranscript makes at most 20 job
\* requests, each after a wait of 5 seconds; it stops at the first answer that
\* reports completion, content or failure; an answer that is not OK uses up
\* an attempt; after 20 polls it returns null; it never throws, and every
\* failure gives null.
C37_PollingBounded ==
  /\ polls <= MaxPolls
  /\ tWaitedMs = PollDelayMs * polls
  /\ polls > 0 => tJobId # ""
  /\ tpc = "waiting" => polls = pollI /\ pollI < MaxPolls
  /\ tpc = "polling" => polls = pollI + 1
  /\ Terminal(lastPoll) =>
       /\ tpc = "done"
       /\ tresult = IF lastPoll.body.content # "" THEN TText(lastPoll.body.content)
                      ELSE TNull
  /\ pollI = MaxPolls => tpc = "done" /\ polls = MaxPolls /\ tresult = TNull
  /\ tresult # TThrew
  /\ tpc # "done" <=> tresult = TPending
  /\ tpc = "done" /\ polls > 0 /\ tresult # TNull =>
       Terminal(lastPoll) /\ tresult = TText(lastPoll.body.content)

C37_Witness ==
  /\ tpc = "done"
  /\ tJobId = "j2"
  /\ polls = MaxPolls
  /\ pollI = MaxPolls
  /\ tWaitedMs = MaxPolls * PollDelayMs
  /\ lastPoll.status = 503
  /\ tresult = TNull

====
